---- MODULE Spec2Model ----
(***************************************************************************)
(* Transaction nesting of Connection (src/src/connection.ts) over a        *)
(* DriverConnection (src/src/driver.ts).  Every public operation of the     *)
(* Connection is one action; the calls it makes on the driver are logged    *)
(* together with the outcome the driver gave them.                          *)
(***************************************************************************)
EXTENDS Integers, Sequences, FiniteSets, TLC

\* ------------------------------------------------------------------ bounds
MaxLevel == 3
OracleLen == 7
\* The longest SQL text handed to the parser.
MaxSqlLen == 6
\* The most pieces a SQL text handed to a compiler is made of.
MaxPieces == 3
\* The most requests handed to one MSSQLConnection.
MaxRequests == 4
\* The most connections a MySQL2Connection takes from its pool.
MaxPooled == 4
\* The most operations started on one Connection without waiting.
MaxCallers == 3

\* ------------------------------------------------------- driver test doubles
\* What a call on the driver (connection) can do: resolve, reject with an
\* error the exception converter maps to a plain DriverException, or reject
\* with one it maps to a ConnectionException.
Outcomes == {"ok", "fail", "lost"}

\* The outcomes of the successive driver calls of one operation: all of them
\* resolve, or exactly one of the first OracleLen rejects.
AllOk == [i \in 1..OracleLen |-> "ok"]

Oracles ==
  {AllOk} \cup {[AllOk EXCEPT ![i] = out] :
                  i \in 1..OracleLen, out \in Outcomes \ {"ok"}}

\* The optional savepoint methods of DriverConnection.  release is "native"
\* (a real RELEASE SAVEPOINT), "noop" (the method exists and does nothing, as
\* in MSSQLConnection) or "absent" (the method is undefined).
DriverConnections ==
  { [name |-> "spy", create |-> TRUE, release |-> "native", rollback |-> TRUE],
    [name |-> "mssql", create |-> TRUE, release |-> "noop", rollback |-> TRUE],
    [name |-> "bare", create |-> FALSE, release |-> "absent", rollback |-> FALSE],
    [name |-> "norelease", create |-> TRUE, release |-> "absent", rollback |-> TRUE],
    [name |-> "norollback", create |-> TRUE, release |-> "native", rollback |-> FALSE] }

\* ------------------------------------------------------------------- errors
Error(kind, driverName) == [kind |-> kind, driver |-> driverName]
NoError == Error("none", "-")
NoActiveTransactionException == Error("NoActiveTransactionException", "-")
RollbackOnlyException == Error("RollbackOnlyException", "-")
DriverException == Error("DriverException", "-")
ConnectionException == Error("ConnectionException", "-")

NestedTransactionsNotSupportedException(driverName) ==
  Error("NestedTransactionsNotSupportedException", driverName)

\* The error a caller's unit of work throws, the marker of a step that was
\* never reached, and the absence of a returned value.
FnError == Error("boom", "-")
Skipped == Error("skipped", "-")
NoValue == << >>

\* Errors that are instances of DbalException.
IsDbalException(error) ==
  error.kind \in {"NoActiveTransactionException", "RollbackOnlyException",
                  "DriverException", "ConnectionException",
                  "NestedTransactionsNotSupportedException"}

\* What a rejected driver call throws, before conversion.
RawError(outcome) ==
  IF outcome = "lost" THEN Error("raw_lost", "-") ELSE Error("raw_fail", "-")

\* What the driver's ExceptionConverter makes of a raw error.
ExceptionConverterConvert(error) ==
  IF error.kind = "raw_lost" THEN ConnectionException ELSE DriverException

Return(s) == [s |-> s, err |-> NoError]
Throw(s, error) == [s |-> s, err |-> error]

\* ----------------------------------------------------------- driver calls
Call(op, n) == [op |-> op, n |-> n]

\* Savepoints the driver connection holds after a call that resolved:
\* created and not yet released, rolled back to, or ended with their
\* transaction or connection.  Creating a name again replaces the older
\* savepoint of that name; releasing or rolling back to a name also ends the
\* savepoints created after it.
Without(savepoints, name) ==
  SelectSeq(savepoints, LAMBDA x : x # name)

UpTo(savepoints, name) ==
  IF \E i \in 1..Len(savepoints) : savepoints[i] = name
  THEN SubSeq(savepoints, 1,
              (CHOOSE i \in 1..Len(savepoints) : savepoints[i] = name) - 1)
  ELSE savepoints

SavepointsAfter(savepoints, call) ==
  CASE call.op = "createSavepoint" -> Append(Without(savepoints, call.n), call.n)
    [] call.op \in {"releaseSavepoint", "rollbackSavepoint"} ->
         UpTo(savepoints, call.n)
    [] call.op = "executeQuery" -> savepoints
    [] OTHER -> << >>

\* The guards of MSSQLConnection that throw before any native call: a
\* second beginTransaction, and commit, rollBack and the savepoint calls
\* without a transaction.
MSSQLRefuses(connection, call) ==
  CASE call.op = "beginTransaction" -> connection.transaction
    [] call.op \in {"commit", "rollBack", "createSavepoint", "rollbackSavepoint"} ->
         ~connection.transaction
    [] OTHER -> FALSE

MSSQLTransactionAfter_ClearedOnFailure(connection, call, out) ==
  CASE call.op = "connect" -> FALSE
    [] out = "refused" -> connection.transaction
    [] call.op = "beginTransaction" -> out = "ok"
    [] call.op \in {"commit", "rollBack"} -> FALSE
    [] OTHER -> connection.transaction

\* The transaction field of MSSQLConnection after a call: driver.connect()
\* makes a new MSSQLConnection; beginTransaction, commit and rollBack assign
\* the field only after the native call has resolved.
MSSQLTransactionAfter(connection, call, out) ==
  CASE call.op = "connect" -> FALSE
    [] out # "ok" -> connection.transaction
    [] call.op = "beginTransaction" -> TRUE
    [] call.op \in {"commit", "rollBack"} -> FALSE
    [] OTHER -> connection.transaction

AdapterAfter(connection, call, out) ==
  IF connection.name # "mssql" THEN connection
  ELSE [connection EXCEPT
          !.transaction = MSSQLTransactionAfter(connection, call, out)]

\* One awaited call on the driver or on the driver connection.  The outcome
\* is the next one of the oracle; a no-op release cannot reject, and a call
\* the adapter refuses reaches no native call.
DriverCall(s, call) ==
  LET i == Len(s.calls) + 1
      drawn == IF i <= OracleLen THEN s.oracle[i] ELSE "ok"
      noop == call.op = "releaseSavepoint" /\ s.driver.release = "noop"
      refused == s.adapter.name = "mssql" /\ MSSQLRefuses(s.adapter, call)
      out == IF noop THEN "ok" ELSE IF refused THEN "refused" ELSE drawn
  IN [s |-> [s EXCEPT !.calls = Append(@, [op |-> call.op, n |-> call.n, out |-> out]),
                      !.savepoints = IF noop \/ refused THEN @
                                     ELSE IF out = "ok" THEN SavepointsAfter(@, call)
                                     ELSE IF out = "lost" THEN << >> ELSE @,
                      !.adapter = AdapterAfter(@, call, out)],
      out |-> out]

\* ------------------------------------------------------------- Connection
\* How the awaits, try, catch and finally blocks of the methods compose.  A
\* result r is the Connection after a step together with what the step threw.

\* Sequencing: the rest of a block runs only if the step did not throw.
Then(r, Rest(_)) == IF r.err # NoError THEN r ELSE Rest(r.s)

\* finally { ... }: the block's own failure replaces the pending one.
Finally(final, pending) ==
  IF final.err # NoError THEN final ELSE [s |-> final.s, err |-> pending]

convertException(s, error) ==
  IF IsDbalException(error) THEN Throw(s, error)
  ELSE IF ExceptionConverterConvert(error) = ConnectionException
  THEN Throw([s EXCEPT !.isConnected = FALSE,
                       !.transactionNestingLevel = 0,
                       !.rollbackOnly = FALSE], ExceptionConverterConvert(error))
  ELSE Throw(s, ExceptionConverterConvert(error))

\* catch (error) { throw this.convertException(error, ...) }
Caught(r) == IF r.err # NoError THEN convertException(r.s, r.err) ELSE r

\* await of a driver call: it resolves and the block goes on, or it rejects
\* and the raw error is thrown.
Await(c, Rest(_)) ==
  IF c.out = "ok" THEN Rest(c.s) ELSE Throw(c.s, RawError(c.out))

getNestedTransactionSavePointName_OffByOne(level) == <<"DATAZEN", level + 1>>

getNestedTransactionSavePointName(level) == <<"DATAZEN", level>>

hasCreateSavepoint_Assumed(s) == TRUE

hasCreateSavepoint(s) == s.driver.create
hasReleaseSavepoint(s) == s.driver.release # "absent"
hasRollbackSavepoint(s) == s.driver.rollback

\* The try block of beginTransaction() once connect() has handed back the
\* driver connection.
beginTransactionOn(s) ==
  IF s.transactionNestingLevel = 0
  THEN Await(DriverCall(s, Call("beginTransaction", << >>)),
             LAMBDA t : Return([t EXCEPT !.transactionNestingLevel = 1]))
  ELSE IF ~hasCreateSavepoint(s)
  THEN Throw(s, NestedTransactionsNotSupportedException(s.driver.name))
  ELSE Await(DriverCall(s, Call("createSavepoint",
               getNestedTransactionSavePointName(s.transactionNestingLevel + 1))),
             LAMBDA t : Return([t EXCEPT !.transactionNestingLevel = @ + 1]))

\* beginTransaction() as connect() calls it: the connection is set already.
connectBegin(s) ==
  IF ~s.autoCommit THEN Caught(beginTransactionOn(s)) ELSE Return(s)

connect(s) ==
  IF s.isConnected THEN Return(s)
  ELSE Caught(Await(DriverCall(s, Call("connect", << >>)),
                    LAMBDA t : connectBegin([t EXCEPT !.isConnected = TRUE])))

beginTransaction(s) == Caught(Then(connect(s), beginTransactionOn))

updateTransactionStateAfterCommit_Reset(s) ==
  [s EXCEPT !.transactionNestingLevel = 0]

updateTransactionStateAfterCommit_Decrement(s) ==
  IF s.transactionNestingLevel # 0
  THEN [s EXCEPT !.transactionNestingLevel = @ - 1] ELSE s

updateTransactionStateAfterCommit_NoRestart(s) == Return(s)

updateTransactionStateAfterCommit_Restart(s) ==
  IF s.autoCommit \/ s.transactionNestingLevel # 0 THEN Return(s)
  ELSE beginTransaction([s EXCEPT !.rollbackOnly = FALSE])

updateTransactionStateAfterCommit(s) ==
  updateTransactionStateAfterCommit_Restart(
    updateTransactionStateAfterCommit_Decrement(s))

commitRejection_IgnoringRollbackOnly(s) ==
  IF s.transactionNestingLevel = 0 THEN NoActiveTransactionException ELSE NoError

\* The guards of commit() that throw before anything is awaited.
commitRejection(s) ==
  IF s.transactionNestingLevel = 0 THEN NoActiveTransactionException
  ELSE IF s.rollbackOnly THEN RollbackOnlyException
  ELSE NoError

\* The try block of commit().
commitAttempt(s) ==
  IF s.transactionNestingLevel = 1
  THEN Await(DriverCall(s, Call("commit", << >>)), Return)
  ELSE IF ~hasReleaseSavepoint(s)
  THEN Throw(s, NestedTransactionsNotSupportedException(s.driver.name))
  ELSE Await(DriverCall(s, Call("releaseSavepoint",
               getNestedTransactionSavePointName(s.transactionNestingLevel))),
             Return)

\* try { ... } catch { convert } finally { updateTransactionStateAfterCommit }
commitFinally(attempt) ==
  Finally(updateTransactionStateAfterCommit(attempt.s), attempt.err)

commitConnected(s) == commitFinally(Caught(commitAttempt(s)))

commit(s) ==
  IF commitRejection(s) # NoError THEN Throw(s, commitRejection(s))
  ELSE Then(connect(s), commitConnected)

\* finally block of the outermost rollBack(), after the driver call c.
rollBackFinally(c) ==
  Finally(IF ~c.s.autoCommit
          THEN beginTransaction([c.s EXCEPT !.rollbackOnly = FALSE])
          ELSE Return([c.s EXCEPT !.rollbackOnly = FALSE]),
          IF c.out = "ok" THEN NoError ELSE RawError(c.out))

\* The try block of rollBack() after connect().
rollBackConnected(s) ==
  IF s.transactionNestingLevel = 1
  THEN rollBackFinally(
         DriverCall([s EXCEPT !.transactionNestingLevel = 0],
                    Call("rollBack", << >>)))
  ELSE IF ~hasRollbackSavepoint(s)
  THEN Throw(s, NestedTransactionsNotSupportedException(s.driver.name))
  ELSE Await(DriverCall(s, Call("rollbackSavepoint",
               getNestedTransactionSavePointName(s.transactionNestingLevel))),
             LAMBDA t : Return([t EXCEPT !.transactionNestingLevel = @ - 1]))

rollBack(s) ==
  IF s.transactionNestingLevel = 0 THEN Throw(s, NoActiveTransactionException)
  ELSE Caught(Then(connect(s), rollBackConnected))

setRollbackOnly_Unguarded(s) == Return([s EXCEPT !.rollbackOnly = TRUE])

setRollbackOnly(s) ==
  IF s.transactionNestingLevel = 0 THEN Throw(s, NoActiveTransactionException)
  ELSE Return([s EXCEPT !.rollbackOnly = TRUE])

\* isRollbackOnly() also yields a value: ret is the flag it read.
isRollbackOnly(s) ==
  IF s.transactionNestingLevel = 0
  THEN [s |-> s, err |-> NoActiveTransactionException, ret |-> NoValue]
  ELSE [s |-> s, err |-> NoError, ret |-> <<s.rollbackOnly>>]

executeQueryOn(s) == Await(DriverCall(s, Call("executeQuery", << >>)), Return)

executeQuery(s) == Caught(Then(connect(s), executeQueryOn))

close_KeepingLevel(s) ==
  IF ~s.isConnected THEN Return(s)
  ELSE Caught(Await(DriverCall(s, Call("close", << >>)),
                    LAMBDA t : Return([t EXCEPT !.isConnected = FALSE])))

close(s) ==
  IF ~s.isConnected THEN Return(s)
  ELSE Caught(Await(DriverCall(s, Call("close", << >>)),
                    LAMBDA t : Return([t EXCEPT !.isConnected = FALSE,
                                                !.transactionNestingLevel = 0,
                                                !.rollbackOnly = FALSE])))

commitAll_Once(s) == commit(s)

RECURSIVE commitAll(_)
commitAll(s) ==
  IF s.transactionNestingLevel = 0 THEN Return(s)
  ELSE IF ~s.autoCommit /\ s.transactionNestingLevel = 1 THEN commit(s)
  ELSE Then(commit(s), commitAll)

\* setAutoCommit() after the flag has been assigned.
setAutoCommitAssigned(s) ==
  IF ~s.isConnected \/ s.transactionNestingLevel = 0 THEN Return(s)
  ELSE commitAll(s)

setAutoCommit(s, autoCommit) ==
  IF autoCommit = s.autoCommit THEN Return(s)
  ELSE setAutoCommitAssigned([s EXCEPT !.autoCommit = autoCommit])

\* ---------------------------------------------------------- transactional
\* The caller's unit of work: it returns a value, throws its own error,
\* marks the transaction rollback-only and returns, or runs a query on the
\* connection (whose failure it lets escape).
FnValues == {7, 8}
Fns ==
  [kind : {"return"}, value : FnValues]
    \cup {[kind |-> k, value |-> 0] : k \in {"throw", "setRollbackOnly", "query"}}

Returning(r, value) ==
  [s |-> r.s, err |-> r.err,
   ret |-> IF r.err = NoError THEN <<value>> ELSE NoValue]

RunFn(s, fn) ==
  CASE fn.kind = "return" -> Returning(Return(s), fn.value)
    [] fn.kind = "throw" -> Returning(Throw(s, FnError), fn.value)
    [] fn.kind = "setRollbackOnly" -> Returning(setRollbackOnly(s), fn.value)
    [] OTHER -> Returning(executeQuery(s), fn.value)

\* What transactional() reports: besides the outcome, how fn ended (fnErr)
\* and how the rollBack() of the catch block ended (rb).
Outcome(r, ret, fnErr, rb) ==
  [s |-> r.s, err |-> r.err, ret |-> ret, fnErr |-> fnErr, rb |-> rb]

transactionalRethrow_Swallowing(r, error, fnErr) ==
  Outcome(r, NoValue, fnErr, r.err)

\* catch (error) { await this.rollBack(); throw error; }, r being the
\* result of the rollBack().
transactionalRethrow(r, error, fnErr) ==
  IF r.err # NoError THEN Outcome(r, NoValue, fnErr, r.err)
  ELSE Outcome(Throw(r.s, error), NoValue, fnErr, NoError)

transactionalCatch(s, error, fnErr) ==
  transactionalRethrow(rollBack(s), error, fnErr)

\* await this.commit(); return result;
transactionalCommit(c, ret) ==
  IF c.err # NoError THEN transactionalCatch(c.s, c.err, NoError)
  ELSE Outcome(c, ret, NoError, Skipped)

\* The try block of transactional(), f being the result of fn.
transactionalTry(f) ==
  IF f.err # NoError THEN transactionalCatch(f.s, f.err, f.err)
  ELSE transactionalCommit(commit(f.s), f.ret)

\* transactional() after its beginTransaction(), whose result is b.
transactionalBegun(b, fn) ==
  IF b.err # NoError THEN Outcome(b, NoValue, Skipped, Skipped)
  ELSE transactionalTry(RunFn(b.s, fn))

transactional(s, fn) == transactionalBegun(beginTransaction(s), fn)

\* ------------------------------------------------------------ SQL parser
\* SQL text is a sequence of characters, each a string of length one; the
\* backtick, which a TLA+ string cannot hold, is written as a word.
Backtick == "BACKTICK"

\* The character at position i, "" before the start and past the end.
At(sql, i) == IF i \in 1..Len(sql) THEN sql[i] ELSE ""

\* The characters of the class SPECIAL_CHARS: : ? ' " [ - / and the backtick.
SPECIAL_CHARS == {":", "?", "'", "\"", "[", "-", "/", Backtick}

\* The characters of [a-zA-Z0-9_], which are also those of \w.
WordChars ==
  {
   "a", "b", "c", "d", "e", "f", "g", "h", "i", "j", "k", "l", "m", "n", "o", "p",
   "q", "r", "s", "t", "u", "v", "w", "x", "y", "z", "A", "B", "C", "D", "E", "F",
   "G", "H", "I", "J", "K", "L", "M", "N", "O", "P", "Q", "R", "S", "T", "U", "V",
   "W", "X", "Y", "Z", "0", "1", "2", "3", "4", "5", "6", "7", "8", "9", "_" }

\* The length of the longest run from position i of characters in (not in)
\* a class: what a greedy [..]* or [^..]* consumes.
Stops(sql, i, stop) == {j \in i..Len(sql) : sql[j] \in stop}
Least(S) == CHOOSE j \in S : \A k \in S : j <= k
RunNotIn(sql, i, stop) ==
  IF Stops(sql, i, stop) = {} THEN Len(sql) + 1 - i
  ELSE Least(Stops(sql, i, stop)) - i
StopsOutside(sql, i, class) == {j \in i..Len(sql) : sql[j] \notin class}
RunIn(sql, i, class) ==
  IF StopsOutside(sql, i, class) = {} THEN Len(sql) + 1 - i
  ELSE Least(StopsOutside(sql, i, class)) - i

\* Each pattern is the length of its match at position i, 0 when it does
\* not match there.  A pattern that matches consumes at least one character.

\* ((\\.)|(?![d\\]).)* from position j: the position where the greedy star
\* stops.  A backslash takes the next character with it, whatever it is (the
\* s flag lets . match a line break); any other character but the delimiter
\* is taken alone.  The two alternatives never apply to the same character,
\* so giving iterations back never finds another match.
RECURSIVE MySQLStringBody(_, _, _)
MySQLStringBody(sql, j, delimiter) ==
  IF At(sql, j) = "\\" /\ j + 1 <= Len(sql)
  THEN MySQLStringBody(sql, j + 2, delimiter)
  ELSE IF At(sql, j) \notin {"", "\\", delimiter}
  THEN MySQLStringBody(sql, j + 1, delimiter)
  ELSE j

ClosedAt(sql, i, stop, delimiter) ==
  IF At(sql, stop) = delimiter THEN stop + 1 - i ELSE 0

getMySQLStringLiteralPattern_WithoutEscapes(sql, i, delimiter) ==
  IF At(sql, i) # delimiter THEN 0
  ELSE ClosedAt(sql, i, i + 1 + RunNotIn(sql, i + 1, {delimiter}), delimiter)

getMySQLStringLiteralPattern(sql, i, delimiter) ==
  IF At(sql, i) # delimiter THEN 0
  ELSE ClosedAt(sql, i, MySQLStringBody(sql, i + 1, delimiter), delimiter)

\* d[^d]*d
getAnsiSQLStringLiteralPattern(sql, i, delimiter) ==
  IF At(sql, i) # delimiter THEN 0
  ELSE ClosedAt(sql, i, i + 1 + RunNotIn(sql, i + 1, {delimiter}), delimiter)

BACKTICK_IDENTIFIER(sql, i) == getAnsiSQLStringLiteralPattern(sql, i, Backtick)

\* \b[Aa][Rr][Rr][Aa][Yy] ending right before position i.
UpperCase(c) ==
  CASE c = "a" -> "A" [] c = "r" -> "R" [] c = "y" -> "Y" [] OTHER -> c

PrecededByArray(sql, i) ==
  /\ i > 5
  /\ [k \in 1..5 |-> UpperCase(sql[i - 6 + k])] = <<"A", "R", "R", "A", "Y">>
  /\ At(sql, i - 6) \notin WordChars

BRACKET_IDENTIFIER_WithoutLookbehind(sql, i) ==
  IF At(sql, i) # "[" THEN 0
  ELSE ClosedAt(sql, i, i + 1 + RunNotIn(sql, i + 1, {"]"}), "]")

\* (?<!\b[Aa][Rr][Rr][Aa][Yy])\[(?:[^\]])*\]
BRACKET_IDENTIFIER(sql, i) ==
  IF At(sql, i) # "[" \/ PrecededByArray(sql, i) THEN 0
  ELSE ClosedAt(sql, i, i + 1 + RunNotIn(sql, i + 1, {"]"}), "]")

MULTICHAR_ExactlyTwo(sql, i) ==
  IF RunIn(sql, i, {":"}) >= 2 THEN 2 ELSE 0

\* :{2,}
MULTICHAR(sql, i) ==
  IF RunIn(sql, i, {":"}) >= 2 THEN RunIn(sql, i, {":"}) ELSE 0

\* :[a-zA-Z0-9_]+
NAMED_PARAMETER(sql, i) ==
  IF At(sql, i) = ":" /\ RunIn(sql, i + 1, WordChars) >= 1
  THEN 1 + RunIn(sql, i + 1, WordChars) ELSE 0

POSITIONAL_PARAMETER_WithoutLookaround(sql, i) ==
  IF At(sql, i) = "?" THEN 1 ELSE 0

\* (?<!\?)\?(?!\?)
POSITIONAL_PARAMETER(sql, i) ==
  IF At(sql, i) = "?" /\ At(sql, i - 1) # "?" /\ At(sql, i + 1) # "?"
  THEN 1 ELSE 0

\* --[^\r\n]*
ONE_LINE_COMMENT(sql, i) ==
  IF At(sql, i) = "-" /\ At(sql, i + 1) = "-"
  THEN 2 + RunNotIn(sql, i + 2, {"\r", "\n"}) ELSE 0

\* ([^*]+|\*+[^/*])* from position j: the position where the greedy star
\* stops.  A run of stars is taken only together with a following character
\* that is neither / nor *, so the body never runs over a closing */.
RECURSIVE MultiLineCommentBody(_, _)
MultiLineCommentBody(sql, j) ==
  IF At(sql, j) \notin {"", "*"}
  THEN MultiLineCommentBody(sql, j + RunNotIn(sql, j, {"*"}))
  ELSE IF At(sql, j) = "*" /\ At(sql, j + RunIn(sql, j, {"*"})) \notin {"", "/"}
  THEN MultiLineCommentBody(sql, j + RunIn(sql, j, {"*"}) + 1)
  ELSE j

\* \**\*/ at the position where the body stopped: the stars, then the slash.
MultiLineCommentEnd(sql, i, stop) ==
  IF At(sql, stop) = "*" /\ At(sql, stop + RunIn(sql, stop, {"*"})) = "/"
  THEN stop + RunIn(sql, stop, {"*"}) + 1 - i
  ELSE 0

\* /\*([^*]+|\*+[^/*])*\**\*/
MULTI_LINE_COMMENT(sql, i) ==
  IF At(sql, i) = "/" /\ At(sql, i + 1) = "*"
  THEN MultiLineCommentEnd(sql, i, MultiLineCommentBody(sql, i + 2))
  ELSE 0

\* [^SPECIAL_CHARS]+
OTHER_PATTERN(sql, i) == RunNotIn(sql, i, SPECIAL_CHARS)

\* [SPECIAL_CHARS]
SPECIAL(sql, i) == IF At(sql, i) \in SPECIAL_CHARS THEN 1 ELSE 0

\* a|b|c: the first alternative that matches.
RECURSIVE FirstMatch(_)
FirstMatch(lengths) ==
  IF lengths = << >> THEN 0
  ELSE IF Head(lengths) > 0 THEN Head(lengths)
  ELSE FirstMatch(Tail(lengths))

stringPatterns(sql, i, mySQLStringEscaping) ==
  IF mySQLStringEscaping
  THEN << getMySQLStringLiteralPattern(sql, i, "'"),
          getMySQLStringLiteralPattern(sql, i, "\"") >>
  ELSE << getAnsiSQLStringLiteralPattern(sql, i, "'"),
          getAnsiSQLStringLiteralPattern(sql, i, "\"") >>

sqlPattern(sql, i, mySQLStringEscaping) ==
  FirstMatch(stringPatterns(sql, i, mySQLStringEscaping)
             \o << BACKTICK_IDENTIFIER(sql, i), BRACKET_IDENTIFIER(sql, i),
                   MULTICHAR(sql, i), ONE_LINE_COMMENT(sql, i),
                   MULTI_LINE_COMMENT(sql, i), OTHER_PATTERN(sql, i) >>)

Match(group, length) == [group |-> group, length |-> length]
NoMatch == Match("null", 0)

\* (?<named>..)|(?<positional>..)|(?<other>(sqlPattern)|SPECIAL), sticky
\* at position i.
tokenExpression(sql, i, mySQLStringEscaping) ==
  IF NAMED_PARAMETER(sql, i) > 0 THEN Match("named", NAMED_PARAMETER(sql, i))
  ELSE IF POSITIONAL_PARAMETER(sql, i) > 0 THEN Match("positional", 1)
  ELSE IF sqlPattern(sql, i, mySQLStringEscaping) > 0
  THEN Match("other", sqlPattern(sql, i, mySQLStringEscaping))
  ELSE IF SPECIAL(sql, i) > 0 THEN Match("other", 1)
  ELSE NoMatch

\* The decimal digits of a natural number, as text.
Digits == <<"0", "1", "2", "3", "4", "5", "6", "7", "8", "9">>
RECURSIVE Decimal(_)
Decimal(n) ==
  IF n < 10 THEN << Digits[n + 1] >>
  ELSE Decimal(n \div 10) \o << Digits[(n % 10) + 1] >>

\* Errors of the parser and of the compilers; detail is the text they carry.
Failure(kind, detail) == [kind |-> kind, detail |-> detail]
NoFailure == Failure("none", << >>)
RegularExpressionException(offset) ==
  Failure("RegularExpressionException", Decimal(offset))

Fragment(kind, token) == [kind |-> kind, token |-> token]

parseToken_WithoutFirstCharacter(sql, mySQLStringEscaping, offset, match) ==
  Fragment(match.group, SubSeq(sql, offset + 2, offset + match.length))

\* One turn of the loop of parse(): the token at offset (counted from 0) is
\* handed to the visitor, here appended to the fragments.
parseToken(sql, mySQLStringEscaping, offset, match) ==
  Fragment(match.group, SubSeq(sql, offset + 1, offset + match.length))

RECURSIVE parseFrom(_, _, _, _)
parseMatched(sql, mySQLStringEscaping, offset, fragments, match) ==
  IF match = NoMatch
  THEN [fragments |-> fragments, err |-> RegularExpressionException(offset)]
  ELSE parseFrom(sql, mySQLStringEscaping, offset + match.length,
                 Append(fragments,
                        parseToken(sql, mySQLStringEscaping, offset, match)))

parseFrom(sql, mySQLStringEscaping, offset, fragments) ==
  IF offset >= Len(sql) THEN [fragments |-> fragments, err |-> NoFailure]
  ELSE parseMatched(sql, mySQLStringEscaping, offset, fragments,
                    tokenExpression(sql, offset + 1, mySQLStringEscaping))

\* Parser.parse with a visitor that collects what it is handed.
parse(sql, mySQLStringEscaping) ==
  parseFrom(sql, mySQLStringEscaping, 0, << >>)

\* ------------------------------------------------------ parameter binding
\* A parameter value is a scalar or an array of scalars; parameters and
\* types are handed over as a list (a JavaScript array) or as a map from
\* names to entries.  Names and SQL text are sequences of characters.
Scalar(v) == [array |-> FALSE, elems |-> <<v>>]
ArrayOf(elements) == [array |-> TRUE, elems |-> elements]

EmptyMap == [name \in {} |-> 0]
List(items) == [array |-> TRUE, list |-> items, map |-> EmptyMap]
Map(entries) == [array |-> FALSE, list |-> << >>, map |-> entries]

\* Object.hasOwn on a list without holes, whose indexes count from 0.
HasIndex(collection, index) == index + 1 \in DOMAIN collection.list
HasName(collection, name) == name \in DOMAIN collection.map

\* An entry a caller left out of a list of types.
Undefined == "undefined"

Text_NULL == <<"N", "U", "L", "L">>
Text_Separator == <<",", " ">>
Text_Question == <<"?">>
Prefixed(name) == <<":">> \o name

\* parts.join(separator)
RECURSIVE Join(_, _)
Join(parts, separator) ==
  IF parts = << >> THEN << >>
  ELSE IF Len(parts) = 1 THEN Head(parts)
  ELSE Head(parts) \o separator \o Join(Tail(parts), separator)

CompiledQuery(sql, parameters, types) ==
  [sql |-> sql, parameters |-> parameters, types |-> types]
NoQuery == CompiledQuery(<< >>, List(<< >>), List(<< >>))

\* What a compilation hands back: the compiled query, or the error thrown
\* and the number of the fragment the visitor was handed when it was thrown
\* (0 when nothing was thrown while visiting).
Compiled(query) == [err |-> NoFailure, at |-> 0, query |-> query]
Rejected(error, at) == [err |-> error, at |-> at, query |-> NoQuery]

isArrayParameterType(type) ==
  type \in {"ARRAY_INTEGER", "ARRAY_STRING", "ARRAY_ASCII", "ARRAY_BINARY"}

toElementParameterType_Unchanged(type) == type

toElementParameterType(type) ==
  CASE type = "ARRAY_INTEGER" -> "INTEGER"
    [] type = "ARRAY_STRING" -> "STRING"
    [] type = "ARRAY_ASCII" -> "ASCII"
    [] type = "ARRAY_BINARY" -> "BINARY"

\* type ?? ParameterType.STRING
OrString(type) == IF type = Undefined THEN "STRING" ELSE type

\* ------------------------------------------------------ ParameterCompiler
MixedParameterStyleError == Failure("MixedParameterStyleError", << >>)
InvalidParameterError == Failure("InvalidParameterError", << >>)
MissingNamedParameterError(name) == Failure("MissingNamedParameterError", name)
MissingPositionalParameterError(index) ==
  Failure("MissingPositionalParameterError", Decimal(index))

CompileContext ==
  [bindCounter |-> 0, boundTypes |-> << >>, boundValues |-> << >>,
   namedBoundTypes |-> EmptyMap, namedBoundValues |-> EmptyMap,
   positionalIndex |-> 0, sqlParts |-> << >>,
   usedNamedParameter |-> FALSE, usedPositionalParameter |-> FALSE]

\* What a callback of the visitor leaves: the context, and what it threw.
Accepted(context) == [context |-> context, err |-> NoFailure]
Thrown(context, error) == [context |-> context, err |-> error]

\* What reading a value yields: the value, or what was thrown instead.
Value(value) == [value |-> value, err |-> NoFailure]
NoSuchValue(error) == [value |-> Scalar(0), err |-> error]

Pushed(context, text) == [context EXCEPT !.sqlParts = Append(@, text)]

Placeholder(n) == <<"p">> \o Decimal(n)

appendScalarBoundValue_ReusingName(value, type, bindingStyle, context) ==
  IF bindingStyle = "NAMED"
  THEN [context |->
          [context EXCEPT
             !.namedBoundValues = (Placeholder(1) :> value) @@ @,
             !.namedBoundTypes = (Placeholder(1) :> type) @@ @],
        placeholder |-> <<"@">> \o Placeholder(1)]
  ELSE [context |-> [context EXCEPT !.boundValues = Append(@, value),
                                    !.boundTypes = Append(@, type)],
        placeholder |-> Text_Question]

appendScalarBoundValue(value, type, bindingStyle, context) ==
  IF bindingStyle = "NAMED"
  THEN [context |->
          [context EXCEPT
             !.bindCounter = @ + 1,
             !.namedBoundValues =
                (Placeholder(context.bindCounter + 1) :> value) @@ @,
             !.namedBoundTypes =
                (Placeholder(context.bindCounter + 1) :> type) @@ @],
        placeholder |-> <<"@">> \o Placeholder(context.bindCounter + 1)]
  ELSE [context |-> [context EXCEPT !.boundValues = Append(@, value),
                                    !.boundTypes = Append(@, type)],
        placeholder |-> Text_Question]

\* value.map((element) => this.appendScalarBoundValue(element, ...)): bound
\* holds the context and the placeholders so far.
Placed(placeholders, appended) ==
  [context |-> appended.context,
   placeholders |-> Append(placeholders, appended.placeholder)]

RECURSIVE appendElements(_, _, _, _)
appendElements(elements, scalarType, bindingStyle, bound) ==
  IF elements = << >> THEN bound
  ELSE appendElements(
         Tail(elements), scalarType, bindingStyle,
         Placed(bound.placeholders,
                appendScalarBoundValue(Scalar(Head(elements)), scalarType,
                                       bindingStyle, bound.context)))

PushedAll(bound) ==
  Accepted(Pushed(bound.context, Join(bound.placeholders, Text_Separator)))

PushedOne(appended) ==
  Accepted(Pushed(appended.context, appended.placeholder))

\* appendBoundValue() once the type has its default.
appendBoundValueTyped(value, parameterType, bindingStyle, context) ==
  IF value.array
  THEN IF ~isArrayParameterType(parameterType)
       THEN Thrown(context, InvalidParameterError)
       ELSE IF value.elems = << >> THEN Accepted(Pushed(context, Text_NULL))
       ELSE PushedAll(appendElements(
              value.elems, toElementParameterType(parameterType), bindingStyle,
              [context |-> context, placeholders |-> << >>]))
  ELSE PushedOne(appendScalarBoundValue(value, parameterType, bindingStyle,
                                        context))

appendBoundValue(value, type, bindingStyle, context) ==
  appendBoundValueTyped(value, OrString(type), bindingStyle, context)

readNamedValue_Unchecked(name, params) ==
  IF params.array THEN NoSuchValue(MixedParameterStyleError)
  ELSE IF HasName(params, name) THEN Value(params.map[name])
  ELSE IF HasName(params, Prefixed(name)) THEN Value(params.map[Prefixed(name)])
  ELSE Value(Scalar(0))

readNamedValue(name, params) ==
  IF params.array THEN NoSuchValue(MixedParameterStyleError)
  ELSE IF HasName(params, name) THEN Value(params.map[name])
  ELSE IF HasName(params, Prefixed(name)) THEN Value(params.map[Prefixed(name)])
  ELSE NoSuchValue(MissingNamedParameterError(name))

readNamedType(name, types) ==
  IF types.array THEN Undefined
  ELSE IF HasName(types, name) THEN types.map[name]
  ELSE IF HasName(types, Prefixed(name)) THEN types.map[Prefixed(name)]
  ELSE Undefined

readPositionalValue(index, params) ==
  IF ~params.array THEN NoSuchValue(MixedParameterStyleError)
  ELSE IF ~HasIndex(params, index)
  THEN NoSuchValue(MissingPositionalParameterError(index))
  ELSE Value(params.list[index + 1])

readPositionalType(index, types) ==
  IF ~types.array THEN Undefined
  ELSE IF ~HasIndex(types, index) THEN Undefined
  ELSE types.list[index + 1]

\* The callbacks of the visitor of compileSQL(), read being the value read.
acceptNamedRead(read, type, bindingStyle, context) ==
  IF read.err # NoFailure THEN Thrown(context, read.err)
  ELSE appendBoundValue(read.value, type, bindingStyle, context)

acceptNamedParameter(fragment, params, types, bindingStyle, context) ==
  acceptNamedRead(readNamedValue(Tail(fragment), params),
                  readNamedType(Tail(fragment), types), bindingStyle,
                  [context EXCEPT !.usedNamedParameter = TRUE])

acceptOther(fragment, context) == Accepted(Pushed(context, fragment))

acceptPositionalAppended(appended) ==
  IF appended.err # NoFailure THEN appended
  ELSE Accepted([appended.context EXCEPT !.positionalIndex = @ + 1])

acceptPositionalRead(read, type, bindingStyle, context) ==
  IF read.err # NoFailure THEN Thrown(context, read.err)
  ELSE acceptPositionalAppended(
         appendBoundValue(read.value, type, bindingStyle, context))

acceptPositionalParameter(params, types, bindingStyle, context) ==
  acceptPositionalRead(readPositionalValue(context.positionalIndex, params),
                       readPositionalType(context.positionalIndex, types),
                       bindingStyle,
                       [context EXCEPT !.usedPositionalParameter = TRUE])

\* The visitor of compileSQL() handed one fragment.
compileFragment(fragment, params, types, bindingStyle, context) ==
  CASE fragment.kind = "named" ->
         acceptNamedParameter(fragment.token, params, types, bindingStyle,
                              context)
    [] fragment.kind = "positional" ->
         acceptPositionalParameter(params, types, bindingStyle, context)
    [] OTHER -> acceptOther(fragment.token, context)

\* The fragments from number i on: the first callback that throws ends it.
RECURSIVE compileFragments(_, _, _, _, _, _)
compileFragmentsStep(fragments, i, params, types, bindingStyle, accepted) ==
  IF accepted.err # NoFailure
  THEN [context |-> accepted.context, err |-> accepted.err, at |-> i]
  ELSE compileFragments(fragments, i + 1, params, types, bindingStyle,
                        accepted.context)

compileFragments(fragments, i, params, types, bindingStyle, context) ==
  IF i > Len(fragments)
  THEN [context |-> context, err |-> NoFailure, at |-> 0]
  ELSE compileFragmentsStep(
         fragments, i, params, types, bindingStyle,
         compileFragment(fragments[i], params, types, bindingStyle, context))

\* this.parser.parse(sql, visitor): what the parser throws, it throws after
\* the fragments before it were visited.
compileSQLParsed(parsed, visited) ==
  IF visited.err = NoFailure /\ parsed.err # NoFailure
  THEN [context |-> visited.context, err |-> parsed.err,
        at |-> Len(parsed.fragments) + 1]
  ELSE visited

compileSQLWith(parsed, params, types, bindingStyle, context) ==
  compileSQLParsed(parsed,
                   compileFragments(parsed.fragments, 1, params, types,
                                    bindingStyle, context))

compileSQL(sql, params, types, bindingStyle, context) ==
  compileSQLWith(parse(sql, TRUE), params, types, bindingStyle, context)

\* compile() after compileSQL().
compileResult(compiled, bindingStyle) ==
  IF compiled.err # NoFailure THEN Rejected(compiled.err, compiled.at)
  ELSE IF /\ compiled.context.usedNamedParameter
          /\ compiled.context.usedPositionalParameter
  THEN Rejected(MixedParameterStyleError, 0)
  ELSE IF bindingStyle = "NAMED"
  THEN Compiled(CompiledQuery(Join(compiled.context.sqlParts, << >>),
                              Map(compiled.context.namedBoundValues),
                              Map(compiled.context.namedBoundTypes)))
  ELSE Compiled(CompiledQuery(Join(compiled.context.sqlParts, << >>),
                              List(compiled.context.boundValues),
                              List(compiled.context.boundTypes)))

compile(sql, params, types, bindingStyle) ==
  compileResult(compileSQL(sql, params, types, bindingStyle, CompileContext),
                bindingStyle)

\* -------------------------------------------------- ExpandArrayParameters
MixedParameterStyleException == Failure("MixedParameterStyleException", << >>)
InvalidParameterException == Failure("InvalidParameterException", << >>)
MissingNamedParameterException(name) ==
  Failure("MissingNamedParameterException", name)
MissingPositionalParameterException(index) ==
  Failure("MissingPositionalParameterException", Decimal(index))

\* A new ExpandArrayParameters.
ExpandArrayParameters ==
  [originalParameterIndex |-> 0, parameterStyle |-> "none",
   convertedSQL |-> << >>, convertedParameters |-> << >>,
   convertedTypes |-> << >>]

\* The key of a parameter: an index or a name.
IndexKey(index) == [number |-> TRUE, index |-> index, name |-> << >>]
NameKey(name) == [number |-> FALSE, index |-> 0, name |-> name]

Expand_acceptParameterStyle(visitor, nextStyle) ==
  IF visitor.parameterStyle = "none"
  THEN Accepted([visitor EXCEPT !.parameterStyle = nextStyle])
  ELSE IF visitor.parameterStyle # nextStyle
  THEN Thrown(visitor, MixedParameterStyleException)
  ELSE Accepted(visitor)

Expand_readNamedValue(name, parameters) ==
  IF parameters.array THEN NoSuchValue(MixedParameterStyleException)
  ELSE IF HasName(parameters, name) THEN Value(parameters.map[name])
  ELSE IF HasName(parameters, Prefixed(name))
  THEN Value(parameters.map[Prefixed(name)])
  ELSE NoSuchValue(MissingNamedParameterException(name))

Expand_readType(key, types) ==
  IF types.array
  THEN IF ~key.number \/ ~HasIndex(types, key.index) THEN Undefined
       ELSE types.list[key.index + 1]
  ELSE IF ~key.number /\ HasName(types, key.name) THEN types.map[key.name]
  ELSE IF ~key.number /\ HasName(types, Prefixed(key.name))
  THEN types.map[Prefixed(key.name)]
  ELSE Undefined

Expand_appendTypedParameter(visitor, values, type) ==
  [visitor EXCEPT
     !.convertedSQL =
        Append(@, Join([k \in 1..Len(values) |-> Text_Question],
                       Text_Separator)),
     !.convertedParameters = @ \o [k \in 1..Len(values) |-> Scalar(values[k])],
     !.convertedTypes = @ \o [k \in 1..Len(values) |-> type]]

\* acceptParameter() once the type has its default.
Expand_acceptParameterTyped(visitor, value, type) ==
  IF ~value.array
  THEN Accepted(Expand_appendTypedParameter(visitor, value.elems, type))
  ELSE IF ~isArrayParameterType(type)
  THEN Thrown(visitor, InvalidParameterException)
  ELSE IF value.elems = << >>
  THEN Accepted([visitor EXCEPT !.convertedSQL = Append(@, Text_NULL)])
  ELSE Accepted(Expand_appendTypedParameter(visitor, value.elems,
                                            toElementParameterType(type)))

Expand_acceptParameter(visitor, key, value, types) ==
  Expand_acceptParameterTyped(visitor, value,
                              OrString(Expand_readType(key, types)))

Expand_acceptPositionalAccepted(accepted) ==
  IF accepted.err # NoFailure THEN accepted
  ELSE Accepted([accepted.context EXCEPT !.originalParameterIndex = @ + 1])

\* acceptPositionalParameter() after acceptParameterStyle("positional").
Expand_acceptPositionalStyled(styled, parameters, types) ==
  IF styled.err # NoFailure THEN styled
  ELSE IF ~parameters.array
  THEN Thrown(styled.context, MixedParameterStyleException)
  ELSE IF ~HasIndex(parameters, styled.context.originalParameterIndex)
  THEN Thrown(styled.context,
              MissingPositionalParameterException(
                styled.context.originalParameterIndex))
  ELSE Expand_acceptPositionalAccepted(
         Expand_acceptParameter(
           styled.context, IndexKey(styled.context.originalParameterIndex),
           parameters.list[styled.context.originalParameterIndex + 1], types))

Expand_acceptPositionalParameter(visitor, parameters, types) ==
  Expand_acceptPositionalStyled(
    Expand_acceptParameterStyle(visitor, "positional"), parameters, types)

Expand_acceptNamedRead(visitor, name, read, types) ==
  IF read.err # NoFailure THEN Thrown(visitor, read.err)
  ELSE Expand_acceptParameter(visitor, NameKey(name), read.value, types)

\* acceptNamedParameter() after acceptParameterStyle("named").
Expand_acceptNamedStyled(styled, sql, parameters, types) ==
  IF styled.err # NoFailure THEN styled
  ELSE IF parameters.array
  THEN Thrown(styled.context, MixedParameterStyleException)
  ELSE Expand_acceptNamedRead(styled.context, Tail(sql),
                              Expand_readNamedValue(Tail(sql), parameters),
                              types)

Expand_acceptNamedParameter(visitor, sql, parameters, types) ==
  Expand_acceptNamedStyled(Expand_acceptParameterStyle(visitor, "named"),
                           sql, parameters, types)

Expand_acceptOther(visitor, sql) ==
  Accepted([visitor EXCEPT !.convertedSQL = Append(@, sql)])

Expand_accept(visitor, fragment, parameters, types) ==
  CASE fragment.kind = "named" ->
         Expand_acceptNamedParameter(visitor, fragment.token, parameters, types)
    [] fragment.kind = "positional" ->
         Expand_acceptPositionalParameter(visitor, parameters, types)
    [] OTHER -> Expand_acceptOther(visitor, fragment.token)

RECURSIVE Expand_parse(_, _, _, _, _)
Expand_parseStep(fragments, i, parameters, types, accepted) ==
  IF accepted.err # NoFailure
  THEN [context |-> accepted.context, err |-> accepted.err, at |-> i]
  ELSE Expand_parse(fragments, i + 1, parameters, types, accepted.context)

\* getParser().parse(sql, visitor) from fragment i on.
Expand_parse(fragments, i, parameters, types, visitor) ==
  IF i > Len(fragments)
  THEN [context |-> visitor, err |-> NoFailure, at |-> 0]
  ELSE Expand_parseStep(fragments, i, parameters, types,
                        Expand_accept(visitor, fragments[i], parameters, types))

\* ------------------------------------------------ Connection.compileQuery
\* Connection.readNamedType
Connection_readNamedType(name, types) ==
  IF name \in DOMAIN types THEN types[name]
  ELSE IF name # << >> /\ Head(name) = ":"
  THEN IF Tail(name) \in DOMAIN types THEN types[Tail(name)] ELSE Undefined
  ELSE IF Prefixed(name) \in DOMAIN types THEN types[Prefixed(name)]
  ELSE Undefined

\* The type tags are ParameterType or ArrayParameterType values, which
\* getBindingInfo() hands back with the value as they are.  For two lists
\* nothing changes; for two maps, every parameter name whose type is found
\* under the name or under its counterpart gets that type under the name
\* itself (a type copied this way is never read for a copy in turn, so the
\* order of the entries does not matter).
normalizeParameters(params, types) ==
  IF ~params.array /\ ~types.array
  THEN [params |-> params,
        types |->
          Map([name \in DOMAIN types.map \cup
                 {n \in DOMAIN params.map :
                    Connection_readNamedType(n, types.map) # Undefined} |->
                 Connection_readNamedType(name, types.map)])]
  ELSE [params |-> params, types |-> types]

normalizePositionalType(type) ==
  IF type = Undefined THEN "STRING"
  ELSE IF isArrayParameterType(type) THEN toElementParameterType(type)
  ELSE type

normalizePositionalTypes(params, types) ==
  IF ~types.array THEN [index \in 1..Len(params) |-> "STRING"]
  ELSE [index \in 1..Len(params) |->
          normalizePositionalType(
            IF index \in DOMAIN types.list THEN types.list[index]
            ELSE Undefined)]

needsExpansion(params, types) ==
  \/ ~params.array
  \/ /\ types.array
     /\ \E index \in DOMAIN types.list :
          isArrayParameterType(types.list[index])

\* expandArrayParameters() after the visitor has been through the SQL.
expandArrayParametersVisited(parsed, visited) ==
  IF visited.err # NoFailure THEN Rejected(visited.err, visited.at)
  ELSE IF parsed.err # NoFailure
  THEN Rejected(parsed.err, Len(parsed.fragments) + 1)
  ELSE Compiled(CompiledQuery(Join(visited.context.convertedSQL, << >>),
                              List(visited.context.convertedParameters),
                              List(visited.context.convertedTypes)))

expandArrayParametersWith(parsed, params, types) ==
  expandArrayParametersVisited(
    parsed,
    Expand_parse(parsed.fragments, 1, params, types, ExpandArrayParameters))

expandArrayParameters(sql, params, types) ==
  IF ~needsExpansion(params, types)
  THEN Compiled(CompiledQuery(sql, List(params.list),
                              List(normalizePositionalTypes(params.list, types))))
  ELSE expandArrayParametersWith(parse(sql, TRUE), params, types)

\* The visitor of convertPositionalToNamedBindings().
NamedBindings ==
  [sqlParts |-> << >>, namedParameters |-> EmptyMap, namedTypes |-> EmptyMap,
   parameterIndex |-> 0, bindCounter |-> 0]

convertPositional(bindings, parameters, types) ==
  IF bindings.parameterIndex + 1 \notin DOMAIN parameters
  THEN Thrown(bindings,
              MissingPositionalParameterException(bindings.parameterIndex))
  ELSE Accepted(
         [bindings EXCEPT
            !.bindCounter = @ + 1,
            !.sqlParts =
               Append(@, <<"@">> \o Placeholder(bindings.bindCounter + 1)),
            !.namedParameters =
               (Placeholder(bindings.bindCounter + 1) :>
                  parameters[bindings.parameterIndex + 1]) @@ @,
            !.namedTypes =
               (Placeholder(bindings.bindCounter + 1) :>
                  IF bindings.parameterIndex + 1 \in DOMAIN types
                  THEN OrString(types[bindings.parameterIndex + 1])
                  ELSE "STRING") @@ @,
            !.parameterIndex = @ + 1])

convertFragment(bindings, fragment, parameters, types) ==
  CASE fragment.kind = "named" -> Thrown(bindings, MixedParameterStyleException)
    [] fragment.kind = "positional" ->
         convertPositional(bindings, parameters, types)
    [] OTHER -> Accepted([bindings EXCEPT !.sqlParts = Append(@, fragment.token)])

RECURSIVE convertFragments(_, _, _, _, _)
convertFragmentsStep(fragments, i, parameters, types, accepted) ==
  IF accepted.err # NoFailure
  THEN [context |-> accepted.context, err |-> accepted.err, at |-> i]
  ELSE convertFragments(fragments, i + 1, parameters, types, accepted.context)

convertFragments(fragments, i, parameters, types, bindings) ==
  IF i > Len(fragments)
  THEN [context |-> bindings, err |-> NoFailure, at |-> 0]
  ELSE convertFragmentsStep(
         fragments, i, parameters, types,
         convertFragment(bindings, fragments[i], parameters, types))

convertPositionalToNamedBindingsVisited(parsed, visited) ==
  IF visited.err # NoFailure THEN Rejected(visited.err, visited.at)
  ELSE IF parsed.err # NoFailure
  THEN Rejected(parsed.err, Len(parsed.fragments) + 1)
  ELSE Compiled(CompiledQuery(Join(visited.context.sqlParts, << >>),
                              Map(visited.context.namedParameters),
                              Map(visited.context.namedTypes)))

convertPositionalToNamedBindingsWith(parsed, parameters, types) ==
  convertPositionalToNamedBindingsVisited(
    parsed,
    convertFragments(parsed.fragments, 1, parameters, types, NamedBindings))

convertPositionalToNamedBindings(sql, parameters, types) ==
  convertPositionalToNamedBindingsWith(parse(sql, TRUE), parameters, types)

\* compileQuery() after expandArrayParameters().
compileQueryExpanded(expanded, bindingStyle) ==
  IF expanded.err # NoFailure \/ bindingStyle = "POSITIONAL" THEN expanded
  ELSE convertPositionalToNamedBindings(expanded.query.sql,
                                        expanded.query.parameters.list,
                                        expanded.query.types.list)

compileQuery(sql, params, types, bindingStyle) ==
  compileQueryExpanded(expandArrayParameters(sql, params, types), bindingStyle)

\* The first two statements of executeQuery() and of executeStatement().
compileNormalized(sql, normalized, bindingStyle) ==
  compileQuery(sql, normalized.params, normalized.types, bindingStyle)

\* ------------------------------------------------------------------ state
VARIABLES autoCommit, isConnected, transactionNestingLevel, rollbackOnly,
          driver, savepoints, last, scenario, onlyTransactions,
          input, output, adapter, tasks

vars == <<autoCommit, isConnected, transactionNestingLevel, rollbackOnly,
          driver, savepoints, last, scenario, onlyTransactions,
          input, output, adapter, tasks>>

\* No driver adapter looked into, and no caller under way.
NoAdapter == [name |-> "-"]
NoTasks == << >>
Idle == adapter = NoAdapter /\ tasks = NoTasks

\* Nothing handed to the parser or to a compiler, and nothing got back.
NoInput == [sql |-> << >>]
NoOutput == [done |-> FALSE]

NoArg == [kind |-> "-", value |-> 0]
FlagArg(b) == [kind |-> "flag", value |-> IF b THEN 1 ELSE 0]

Snapshot ==
  [autoCommit |-> autoCommit, isConnected |-> isConnected,
   transactionNestingLevel |-> transactionNestingLevel,
   rollbackOnly |-> rollbackOnly, savepoints |-> savepoints]

\* The Connection as an operation finds it, with the outcomes the driver
\* will give to the calls of this operation.
Current(oracle) ==
  [autoCommit |-> autoCommit, isConnected |-> isConnected,
   transactionNestingLevel |-> transactionNestingLevel,
   rollbackOnly |-> rollbackOnly, driver |-> driver,
   savepoints |-> savepoints, calls |-> << >>, oracle |-> oracle,
   adapter |-> adapter]

\* The documented flow begin, begin, rollBack, commit on a fresh connection.
ScenarioOps == <<"beginTransaction", "beginTransaction", "rollBack", "commit">>

ScenarioNext(op, r) ==
  IF /\ scenario \in 0..3
     /\ autoCommit
     /\ driver.name = "spy"
     /\ op = ScenarioOps[scenario + 1]
     /\ \A i \in 1..Len(r.s.calls) : r.s.calls[i].out = "ok"
  THEN scenario + 1
  ELSE -1

\* The operations C6 ranges over.
TransactionOps == {"beginTransaction", "commit", "rollBack"}

Field(r, name, default) == IF name \in DOMAIN r THEN r[name] ELSE default

Record(op, arg, r) ==
  [op |-> op, arg |-> arg, pre |-> Snapshot, err |-> r.err,
   ret |-> Field(r, "ret", NoValue), rb |-> Field(r, "rb", Skipped),
   fnErr |-> Field(r, "fnErr", Skipped), calls |-> r.s.calls]

FinishConnection(op, arg, r) ==
  /\ autoCommit' = r.s.autoCommit
  /\ isConnected' = r.s.isConnected
  /\ transactionNestingLevel' = r.s.transactionNestingLevel
  /\ rollbackOnly' = r.s.rollbackOnly
  /\ savepoints' = r.s.savepoints
  /\ driver' = driver
  /\ last' = Record(op, arg, r)
  /\ scenario' = ScenarioNext(op, r)
  /\ onlyTransactions' = (onlyTransactions /\ op \in TransactionOps)

Finish(op, arg, r) ==
  /\ FinishConnection(op, arg, r)
  /\ UNCHANGED <<input, output, adapter, tasks>>

Init ==
  /\ autoCommit \in BOOLEAN
  /\ isConnected = FALSE
  /\ transactionNestingLevel = 0
  /\ rollbackOnly = FALSE
  /\ driver \in DriverConnections
  /\ savepoints = << >>
  /\ last = [op |-> "new", arg |-> NoArg,
             pre |-> [autoCommit |-> autoCommit, isConnected |-> FALSE,
                      transactionNestingLevel |-> 0, rollbackOnly |-> FALSE,
                      savepoints |-> << >>],
             err |-> NoError, ret |-> NoValue, rb |-> Skipped, fnErr |-> Skipped,
             calls |-> << >>]
  /\ scenario = 0
  /\ onlyTransactions = autoCommit
  /\ input = NoInput
  /\ output = NoOutput
  /\ Idle

Connect ==
  \E o \in Oracles : Finish("connect", NoArg, connect(Current(o)))

BeginTransaction ==
  /\ transactionNestingLevel < MaxLevel
  /\ \E o \in Oracles :
       Finish("beginTransaction", NoArg, beginTransaction(Current(o)))

Commit ==
  \E o \in Oracles : Finish("commit", NoArg, commit(Current(o)))

RollBack ==
  \E o \in Oracles : Finish("rollBack", NoArg, rollBack(Current(o)))

SetRollbackOnly ==
  Finish("setRollbackOnly", NoArg, setRollbackOnly(Current(AllOk)))

IsRollbackOnly ==
  Finish("isRollbackOnly", NoArg, isRollbackOnly(Current(AllOk)))

Transactional ==
  /\ transactionNestingLevel < MaxLevel
  /\ \E o \in Oracles, fn \in Fns :
       Finish("transactional", fn, transactional(Current(o), fn))

SetAutoCommit ==
  \E o \in Oracles, b \in BOOLEAN :
    Finish("setAutoCommit", FlagArg(b), setAutoCommit(Current(o), b))

ExecuteQuery ==
  \E o \in Oracles : Finish("executeQuery", NoArg, executeQuery(Current(o)))

Close ==
  \E o \in Oracles : Finish("close", NoArg, close(Current(o)))

Next ==
  \/ Connect
  \/ BeginTransaction
  \/ Commit
  \/ RollBack
  \/ SetRollbackOnly
  \/ IsRollbackOnly
  \/ Transactional
  \/ SetAutoCommit
  \/ ExecuteQuery
  \/ Close

Spec == Init /\ [][Next]_vars

\* ------------------------------------------------------------ ParserSpec
\* Parser.parse on its own: a Parser of either dialect is handed one SQL text
\* and a visitor that collects the fragments.

\* All texts of at most n characters of an alphabet.
Texts(alphabet, n) == UNION {[1..k -> alphabet] : k \in 0..n}

\* Texts around string literals, around comments, around quoted identifiers
\* and around named markers, shorter texts that mix literals and comments,
\* and bracket subscripts after the word ARRAY, after words that end in or
\* resemble it, and after nothing.
ArrayPrefixes ==
  { << >>, <<"A", "R", "R", "A", "Y">>, <<"a", "r", "r", "a", "y">>,
    <<"x", "A", "R", "R", "A", "Y">>, <<" ", "A", "R", "R", "A", "Y">>,
    <<"A", "R", "R", "A">>, <<"A", "r", "R", "a", "y">> }

SqlTexts ==
  Texts({"'", "\"", "\\", "?", "a"}, MaxSqlLen)
    \cup Texts({"-", "\n", "/", "*", "?"}, MaxSqlLen)
    \cup Texts({Backtick, "[", "]", "?", "'"}, MaxSqlLen)
    \cup Texts({":", "a", "_", "?", "'"}, MaxSqlLen)
    \cup Texts({"'", "\"", Backtick, "\\", "-", "\n", "/", "*", "?"},
              MaxSqlLen - 1)
    \cup {prefix \o tail : prefix \in ArrayPrefixes,
                           tail \in Texts({"[", "]", "?"}, MaxSqlLen - 2)}

\* A Connection that is never used.
Unused ==
  /\ autoCommit = TRUE
  /\ isConnected = FALSE
  /\ transactionNestingLevel = 0
  /\ rollbackOnly = FALSE
  /\ driver = CHOOSE d \in DriverConnections : d.name = "spy"
  /\ savepoints = << >>
  /\ last = [op |-> "new", arg |-> NoArg,
             pre |-> [autoCommit |-> TRUE, isConnected |-> FALSE,
                      transactionNestingLevel |-> 0, rollbackOnly |-> FALSE,
                      savepoints |-> << >>],
             err |-> NoError, ret |-> NoValue, rb |-> Skipped, fnErr |-> Skipped,
             calls |-> << >>]
  /\ scenario = 0
  /\ onlyTransactions = TRUE

ConnectionVars ==
  <<autoCommit, isConnected, transactionNestingLevel, rollbackOnly,
    driver, savepoints, last, scenario, onlyTransactions>>

ParserInit ==
  /\ Unused
  /\ input \in [sql : SqlTexts, mySQLStringEscaping : BOOLEAN]
  /\ output = NoOutput
  /\ Idle

Parsed(result) ==
  [done |-> TRUE, fragments |-> result.fragments, err |-> result.err]

Parse ==
  /\ ~output.done
  /\ output' = Parsed(parse(input.sql, input.mySQLStringEscaping))
  /\ UNCHANGED <<input, ConnectionVars, adapter, tasks>>

ParserNext == Parse

ParserSpec == ParserInit /\ [][ParserNext]_vars

\* ---------------------------------------------------------- CompilerSpec
\* The two ways SQL, parameters and types are compiled for a driver:
\* ParameterCompiler.compile, and the first statements of
\* Connection.executeQuery and executeStatement.

\* SQL texts made of markers, with and without a comma before them, and of a
\* literal that holds a question mark.
SqlPieces ==
  { <<":", "a">>, <<":", "b">>, <<"?">>, <<",", "?">>, <<",", ":", "a">>,
    <<"'", "?", "'">> }

RECURSIVE PiecedTexts(_)
PiecedTexts(n) ==
  IF n = 0 THEN {<< >>}
  ELSE {<< >>} \cup {piece \o text : piece \in SqlPieces,
                                     text \in PiecedTexts(n - 1)}

\* An entry a caller left out of a map.
Absent == [array |-> FALSE, elems |-> << >>]
Entry(name, entry, absent) == IF entry = absent THEN EmptyMap ELSE name :> entry

\* Parameters: lists of up to two values, and maps that hold a under its
\* bare name, under its prefixed name or both, and b or not.
ParameterSets ==
  {List(<< >>)}
    \cup {List(<<first>>) :
            first \in {Scalar(10), ArrayOf(<<1, 2>>), ArrayOf(<< >>)}}
    \cup {List(<<first, second>>) :
            first \in {Scalar(10), ArrayOf(<<1, 2>>), ArrayOf(<< >>)},
            second \in {Scalar(20), ArrayOf(<<3, 4>>)}}
    \cup {Map(Entry(<<"a">>, a, Absent) @@ Entry(<<":", "a">>, pa, Absent)
                @@ Entry(<<"b">>, b, Absent)) :
            a \in {Absent, Scalar(10), ArrayOf(<<1, 2>>), ArrayOf(<< >>)},
            pa \in {Absent, Scalar(20)},
            b \in {Absent, Scalar(30)}}

TypeSets ==
  {List(tags) :
     tags \in { << >>, <<"INTEGER">>, <<"ARRAY_INTEGER">>, <<"ARRAY_STRING">>,
                <<Undefined, "ARRAY_INTEGER">>, <<"INTEGER", "INTEGER">>,
                <<"ARRAY_INTEGER", "INTEGER">>,
                <<"ARRAY_INTEGER", "ARRAY_STRING">> }}
    \cup {Map(Entry(<<"a">>, a, "absent") @@ Entry(<<":", "a">>, pa, "absent")) :
            a \in {"absent", "INTEGER", "ARRAY_INTEGER"},
            pa \in {"absent", "ARRAY_STRING"}}

ParameterBindingStyle == {"POSITIONAL", "NAMED"}

\* A spy driver of the given binding style.
SpyDriver(bindingStyle) ==
  [name |-> "spy", create |-> TRUE, release |-> "native", rollback |-> TRUE,
   bindingStyle |-> bindingStyle]

\* What a caller hands over; fragments is the SQL as the parser of the
\* compilers cuts it, kept beside it for reading the outcome.
Handed(sql, params, types, bindingStyle) ==
  [sql |-> sql, params |-> params, types |-> types,
   bindingStyle |-> bindingStyle, mySQLStringEscaping |-> TRUE,
   fragments |-> parse(sql, TRUE).fragments]

CompilerInit ==
  /\ input \in {Handed(sql, params, types, bindingStyle) :
                  sql \in PiecedTexts(MaxPieces), params \in ParameterSets,
                  types \in TypeSets, bindingStyle \in ParameterBindingStyle}
  /\ output = NoOutput
  /\ Idle
  /\ autoCommit = TRUE
  /\ isConnected = FALSE
  /\ transactionNestingLevel = 0
  /\ rollbackOnly = FALSE
  /\ driver = SpyDriver(input.bindingStyle)
  /\ savepoints = << >>
  /\ last = [op |-> "new", arg |-> NoArg,
             pre |-> [autoCommit |-> TRUE, isConnected |-> FALSE,
                      transactionNestingLevel |-> 0, rollbackOnly |-> FALSE,
                      savepoints |-> << >>],
             err |-> NoError, ret |-> NoValue, rb |-> Skipped, fnErr |-> Skipped,
             calls |-> << >>]
  /\ scenario = 0
  /\ onlyTransactions = TRUE

Done(op, result) ==
  [done |-> TRUE, op |-> op, err |-> result.err, at |-> result.at,
   query |-> result.query]

\* new ParameterCompiler().compile(sql, params, types, bindingStyle)
Compile ==
  /\ ~output.done
  /\ output' = Done("compile", compile(input.sql, input.params, input.types,
                                       input.bindingStyle))
  /\ UNCHANGED <<input, ConnectionVars, adapter, tasks>>

\* connection.executeQuery(sql, params, types): a query that does not
\* compile is thrown before the driver is touched, one that does is sent.
ExecuteCompiled(result) ==
  /\ output' = Done("executeQuery", result)
  /\ IF result.err = NoFailure
     THEN FinishConnection("executeQuery", NoArg, executeQuery(Current(AllOk)))
     ELSE UNCHANGED ConnectionVars
  /\ UNCHANGED <<input, adapter, tasks>>

ExecuteQueryWith ==
  /\ ~output.done
  /\ ExecuteCompiled(
       compileNormalized(input.sql,
                         normalizeParameters(input.params, input.types),
                         driver.bindingStyle))

CompilerNext ==
  \/ Compile
  \/ ExecuteQueryWith

CompilerSpec == CompilerInit /\ [][CompilerNext]_vars

CompilerTypeOK ==
  output.done => output.err.kind \in
    {"none", "MixedParameterStyleError", "InvalidParameterError",
     "MissingNamedParameterError", "MissingPositionalParameterError",
     "MixedParameterStyleException", "InvalidParameterException",
     "MissingNamedParameterException", "MissingPositionalParameterException",
     "RegularExpressionException"}

\* ------------------------------------------------------------ SerialSpec
\* MSSQLConnection.executeQuery and executeStatement handed in by callers
\* that do not wait for one another.  A request is the promise runSerial()
\* returns: queued until the promise it was chained to has settled, then
\* running (its work has sent the native query), then fulfilled or rejected.
\* serialQueue is the request whose settling fulfils the queue promise, 0
\* for the promise the field starts with, which is resolved.
MSSQLConnection ==
  [name |-> "mssql", transaction |-> FALSE, serialQueue |-> 0, started |-> 0]

Request(work, after) ==
  [work |-> work, after |-> after, status |-> "queued", order |-> 0]

Settled(requests, k) ==
  IF k = 0 THEN TRUE ELSE requests[k].status \in {"fulfilled", "rejected"}

runSerial_Unchained(connection, requests, work) ==
  [connection |-> [connection EXCEPT !.serialQueue = Len(requests) + 1],
   requests |-> Append(requests, Request(work, 0))]

\* runSerial(work): current = serialQueue.then(work, work);
\* serialQueue = current.then(() => undefined, () => undefined)
runSerial(connection, requests, work) ==
  [connection |-> [connection EXCEPT !.serialQueue = Len(requests) + 1],
   requests |-> Append(requests, Request(work, connection.serialQueue))]

Submitted(r) ==
  /\ adapter' = r.connection
  /\ tasks' = r.requests
  /\ UNCHANGED <<input, output, ConnectionVars>>

SerialExecuteQuery ==
  /\ Len(tasks) < MaxRequests
  /\ Submitted(runSerial(adapter, tasks, "executeQuery"))

SerialExecuteStatement ==
  /\ Len(tasks) < MaxRequests
  /\ Submitted(runSerial(adapter, tasks, "executeStatement"))

\* The promise a request was chained to has settled, either way: then(work,
\* work) calls the work, which sends request.query(sql).
StartWork ==
  \E k \in 1..Len(tasks) :
    /\ tasks[k].status = "queued"
    /\ Settled(tasks, tasks[k].after)
    /\ tasks' = [tasks EXCEPT ![k].status = "running",
                              ![k].order = adapter.started + 1]
    /\ adapter' = [adapter EXCEPT !.started = @ + 1]
    /\ UNCHANGED <<input, output, ConnectionVars>>

\* request.query(sql) resolves or rejects.
NativeQuerySettles ==
  \E k \in 1..Len(tasks), outcome \in {"fulfilled", "rejected"} :
    /\ tasks[k].status = "running"
    /\ tasks' = [tasks EXCEPT ![k].status = outcome]
    /\ UNCHANGED <<adapter, input, output, ConnectionVars>>

SerialInit ==
  /\ Unused
  /\ input = NoInput
  /\ output = NoOutput
  /\ adapter = MSSQLConnection
  /\ tasks = NoTasks

SerialNext ==
  \/ SerialExecuteQuery
  \/ SerialExecuteStatement
  \/ StartWork
  \/ NativeQuerySettles

SerialSpec == SerialInit /\ [][SerialNext]_vars

\* ------------------------------------------------------------- MssqlSpec
\* A Connection whose driver connection is an MSSQLConnection: the calls of
\* beginTransaction(), commit() and rollBack() pass through the guards of
\* the adapter before they reach the native transaction.
FinishOnAdapter(op, r) ==
  /\ FinishConnection(op, NoArg, r)
  /\ adapter' = r.s.adapter
  /\ UNCHANGED <<input, output, tasks>>

MssqlBeginTransaction ==
  /\ transactionNestingLevel < MaxLevel
  /\ \E o \in Oracles :
       FinishOnAdapter("beginTransaction", beginTransaction(Current(o)))

MssqlCommit ==
  \E o \in Oracles : FinishOnAdapter("commit", commit(Current(o)))

MssqlRollBack ==
  \E o \in Oracles : FinishOnAdapter("rollBack", rollBack(Current(o)))

MssqlInit ==
  /\ autoCommit \in BOOLEAN
  /\ isConnected = FALSE
  /\ transactionNestingLevel = 0
  /\ rollbackOnly = FALSE
  /\ driver = CHOOSE d \in DriverConnections : d.name = "mssql"
  /\ savepoints = << >>
  /\ last = [op |-> "new", arg |-> NoArg,
             pre |-> [autoCommit |-> autoCommit, isConnected |-> FALSE,
                      transactionNestingLevel |-> 0, rollbackOnly |-> FALSE,
                      savepoints |-> << >>],
             err |-> NoError, ret |-> NoValue, rb |-> Skipped, fnErr |-> Skipped,
             calls |-> << >>]
  /\ scenario = 0
  /\ onlyTransactions = autoCommit
  /\ input = NoInput
  /\ output = NoOutput
  /\ adapter = MSSQLConnection
  /\ tasks = NoTasks

MssqlNext ==
  \/ MssqlBeginTransaction
  \/ MssqlCommit
  \/ MssqlRollBack

MssqlSpec == MssqlInit /\ [][MssqlNext]_vars

\* -------------------------------------------------------------- PoolSpec
\* A MySQL2Connection over a pool, its methods called one after the other.
\* Pooled connections are numbered in the order pool.getConnection() hands
\* them out; transactionConnection is 0 for null.  obtained counts the
\* connections handed out, released how often release() was called on each,
\* open tells whether a transaction begun through the adapter has not been
\* ended through it, and lastCall what the last method called came to.
MySQL2Connection ==
  [name |-> "mysql2", transactionConnection |-> 0, obtained |-> 0,
   released |-> [id \in 1..MaxPooled |-> 0], open |-> FALSE,
   lastCall |-> [op |-> "new", out |-> "ok"]]

Called2(connection, op, out) ==
  [connection EXCEPT !.lastCall = [op |-> op, out |-> out]]

\* connection.release()
releaseTransactionConnection(connection, id) ==
  [connection EXCEPT !.released[id] = @ + 1]

\* this.client.getConnection()
acquireTransactionConnection(connection) ==
  [connection EXCEPT !.obtained = @ + 1]

\* beginTransaction() once the pool has handed out a connection: the
\* field is assigned only after the native call has resolved.
MySQL2BeginOn(connection, native) ==
  IF native = "ok"
  THEN [connection EXCEPT !.transactionConnection = connection.obtained,
                          !.open = TRUE]
  ELSE connection

MySQL2BeginTransaction(connection, pool, native) ==
  IF connection.transactionConnection # 0
  THEN Called2(connection, "beginTransaction", "refused")
  ELSE IF pool # "ok"
  THEN Called2(connection, "beginTransaction", "unavailable")
  ELSE Called2(MySQL2BeginOn(acquireTransactionConnection(connection), native),
               "beginTransaction", native)

\* try { await native call } finally { release; transactionConnection = null }
MySQL2End(connection, op, native) ==
  IF connection.transactionConnection = 0
  THEN Called2(connection, op, "refused")
  ELSE Called2(
         [releaseTransactionConnection(connection,
                                       connection.transactionConnection)
            EXCEPT !.transactionConnection = 0, !.open = FALSE],
         op, native)

MySQL2Commit(connection, native) == MySQL2End(connection, "commit", native)
MySQL2RollBack(connection, native) == MySQL2End(connection, "rollBack", native)

MySQL2Close(connection) ==
  IF connection.transactionConnection = 0
  THEN Called2(connection, "close", "ok")
  ELSE Called2(
         [releaseTransactionConnection(connection,
                                       connection.transactionConnection)
            EXCEPT !.transactionConnection = 0, !.open = FALSE],
         "close", "ok")

PoolDone(connection) ==
  /\ adapter' = connection
  /\ UNCHANGED <<tasks, input, output, ConnectionVars>>

NativeOutcomes == {"ok", "fail"}

PoolBeginTransaction ==
  /\ adapter.obtained < MaxPooled
  /\ \E pool \in NativeOutcomes, native \in NativeOutcomes :
       PoolDone(MySQL2BeginTransaction(adapter, pool, native))

PoolCommit ==
  \E native \in NativeOutcomes : PoolDone(MySQL2Commit(adapter, native))

PoolRollBack ==
  \E native \in NativeOutcomes : PoolDone(MySQL2RollBack(adapter, native))

PoolClose == PoolDone(MySQL2Close(adapter))

PoolInit ==
  /\ Unused
  /\ input = NoInput
  /\ output = NoOutput
  /\ adapter = MySQL2Connection
  /\ tasks = NoTasks

PoolNext ==
  \/ PoolBeginTransaction
  \/ PoolCommit
  \/ PoolRollBack
  \/ PoolClose

PoolSpec == PoolInit /\ [][PoolNext]_vars

\* ----------------------------------------------------------- ConnectSpec
\* Operations started on one Connection by callers that do not wait for one
\* another.  Each runs from one await to the next without interruption.  A
\* caller is the operation it started, where it stands, and the driver
\* connection it has in hand (0 for none): "connecting" while it awaits
\* driver.connect(), "beginning" while the beginTransaction() of connect()
\* awaits its own connect(), "began" and "savepointed" while that awaits the
\* driver connection, "connected" once connect() has returned, "done" at
\* the end.  Driver connections are numbered in the order of the calls of
\* driver.connect(); the driver counts what it is asked for.
SharedConnection ==
  [name |-> "shared", driverConnection |-> 0, connects |-> 0, begins |-> 0,
   savepointsMade |-> 0]

Caller(op, pc, connection) == [op |-> op, pc |-> pc, conn |-> connection]

\* connect() up to its first await: the connection at hand, or a call of
\* driver.connect().
connectStart_Shared(shared, op) ==
  IF shared.driverConnection # 0
  THEN [shared |-> shared,
        caller |-> Caller(op, "connected", shared.driverConnection)]
  ELSE IF shared.connects > 0
  THEN [shared |-> shared, caller |-> Caller(op, "connecting", 1)]
  ELSE [shared |-> [shared EXCEPT !.connects = @ + 1],
        caller |-> Caller(op, "connecting", 1)]

connectStart(shared, op) ==
  IF shared.driverConnection # 0
  THEN [shared |-> shared,
        caller |-> Caller(op, "connected", shared.driverConnection)]
  ELSE [shared |-> [shared EXCEPT !.connects = @ + 1],
        caller |-> Caller(op, "connecting", shared.connects + 1)]

Started2(r) ==
  /\ Len(tasks) < MaxCallers
  /\ adapter' = r.shared
  /\ tasks' = Append(tasks, r.caller)
  /\ UNCHANGED <<input, output, ConnectionVars>>

StartConnect == Started2(connectStart(adapter, "connect"))

StartExecuteQuery == Started2(connectStart(adapter, "executeQuery"))

OtherConnectionVars ==
  <<autoCommit, rollbackOnly, driver, savepoints, last, scenario,
    onlyTransactions>>

\* this.driverConnection = await this.driver.connect(params); then, with
\* auto-commit disabled, beginTransaction() is called and awaits connect().
DriverConnectResolves ==
  \E k \in 1..Len(tasks) :
    /\ tasks[k].pc = "connecting"
    /\ adapter' = [adapter EXCEPT !.driverConnection = tasks[k].conn]
    /\ isConnected' = TRUE
    /\ tasks' = [tasks EXCEPT
                   ![k].pc = IF autoCommit THEN "connected" ELSE "beginning"]
    /\ UNCHANGED <<transactionNestingLevel, input, output, OtherConnectionVars>>

\* beginTransaction() after its await of connect(): at level 0 it asks the
\* connection it was handed to begin, else to create a savepoint.
BeginResumes ==
  \E k \in 1..Len(tasks) :
    /\ tasks[k].pc = "beginning"
    /\ IF transactionNestingLevel = 0
       THEN /\ adapter' = [adapter EXCEPT !.begins = @ + 1]
            /\ tasks' = [tasks EXCEPT ![k].pc = "began"]
       ELSE /\ adapter' = [adapter EXCEPT !.savepointsMade = @ + 1]
            /\ tasks' = [tasks EXCEPT ![k].pc = "savepointed"]
    /\ UNCHANGED <<isConnected, transactionNestingLevel, input, output,
                   OtherConnectionVars>>

\* The driver connection has begun or made the savepoint: the level is
\* assigned, and connect() returns this.driverConnection.
NativeBeginResolves ==
  \E k \in 1..Len(tasks) :
    /\ tasks[k].pc \in {"began", "savepointed"}
    /\ transactionNestingLevel' =
         IF tasks[k].pc = "began" THEN 1 ELSE transactionNestingLevel + 1
    /\ tasks' = [tasks EXCEPT ![k].pc = "connected",
                              ![k].conn = adapter.driverConnection]
    /\ UNCHANGED <<adapter, isConnected, input, output, OtherConnectionVars>>

\* The operation goes on with the connection connect() gave it.
OperationResumes ==
  \E k \in 1..Len(tasks) :
    /\ tasks[k].pc = "connected"
    /\ tasks' = [tasks EXCEPT ![k].pc = "done"]
    /\ UNCHANGED <<adapter, input, output, ConnectionVars>>

ConnectInit ==
  /\ autoCommit \in BOOLEAN
  /\ isConnected = FALSE
  /\ transactionNestingLevel = 0
  /\ rollbackOnly = FALSE
  /\ driver = CHOOSE d \in DriverConnections : d.name = "spy"
  /\ savepoints = << >>
  /\ last = [op |-> "new", arg |-> NoArg,
             pre |-> [autoCommit |-> autoCommit, isConnected |-> FALSE,
                      transactionNestingLevel |-> 0, rollbackOnly |-> FALSE,
                      savepoints |-> << >>],
             err |-> NoError, ret |-> NoValue, rb |-> Skipped, fnErr |-> Skipped,
             calls |-> << >>]
  /\ scenario = 0
  /\ onlyTransactions = autoCommit
  /\ input = NoInput
  /\ output = NoOutput
  /\ adapter = SharedConnection
  /\ tasks = NoTasks

ConnectNext ==
  \/ StartConnect
  \/ StartExecuteQuery
  \/ DriverConnectResolves
  \/ BeginResumes
  \/ NativeBeginResolves
  \/ OperationResumes

ConnectSpec == ConnectInit /\ [][ConnectNext]_vars

\* ------------------------------------------------------------- sanity
TypeOK ==
  /\ autoCommit \in BOOLEAN
  /\ isConnected \in BOOLEAN
  /\ transactionNestingLevel \in 0..(MaxLevel + 1)
  /\ rollbackOnly \in BOOLEAN
  /\ Len(last.calls) <= MaxLevel + 7

\* ------------------------------------------------- reading the last operation
Pre == last.pre
CallOps == [i \in 1..Len(last.calls) |-> last.calls[i].op]
Called(op) == \E i \in 1..Len(last.calls) : last.calls[i].op = op
AllCallsOk == \A i \in 1..Len(last.calls) : last.calls[i].out = "ok"
ConnectionLost == \E i \in 1..Len(last.calls) : last.calls[i].out = "lost"
OkCall(op, n) == [op |-> op, n |-> n, out |-> "ok"]
SavepointName(level) == <<"DATAZEN", level>>

\* The calls that act on the transaction of the driver connection.
TransactionCalls ==
  {"beginTransaction", "commit", "rollBack",
   "createSavepoint", "releaseSavepoint", "rollbackSavepoint"}

\* The first transaction call of the last operation was rejected, though not
\* for a lost connection.
TransactionCallFailed ==
  \E i \in 1..Len(last.calls) :
    /\ last.calls[i].op \in TransactionCalls
    /\ last.calls[i].out = "fail"
    /\ \A j \in 1..(i - 1) : last.calls[j].op \notin TransactionCalls

\* The level the operation would be at had it gone up or down by one.
Up == Pre.transactionNestingLevel + 1
Down == Pre.transactionNestingLevel - 1
Level == Pre.transactionNestingLevel

\* ------------------------------------------------------------------ C1
\* C1: when the transaction call made by beginTransaction(), commit() or
\* rollBack() is rejected by the driver, the nesting level and the
\* rollback-only flag are what they were before the operation.  (Stated for
\* the first transaction call of the operation and for rejections that are
\* not a loss of the connection, after which the Connection is reset.)
C1_FailedCallLeavesStateUnchanged ==
  (/\ last.op \in TransactionOps
   /\ TransactionCallFailed)
  => /\ transactionNestingLevel = Level
     /\ rollbackOnly = Pre.rollbackOnly

\* ------------------------------------------------------------------ C2
\* C2 as claimed: every beginTransaction() that returns raised the level by
\* exactly one, every commit() or rollBack() that returns lowered it by
\* exactly one, the level is never negative and a decrement at level 0 is
\* rejected with the no-active-transaction error.
C2_EveryCallMovesOneLevel ==
  /\ transactionNestingLevel >= 0
  /\ (last.op = "beginTransaction" /\ last.err = NoError)
       => transactionNestingLevel = Up
  /\ (last.op \in {"commit", "rollBack"} /\ last.err = NoError)
       => transactionNestingLevel = Down
  /\ (last.op \in {"commit", "rollBack"} /\ Level = 0)
       => last.err = NoActiveTransactionException /\ transactionNestingLevel = 0

\* C2 amended: a beginTransaction() that returns raised the level by one,
\* except that the first one on an unconnected Connection with auto-commit
\* disabled ends at level 2 (connect() opened level 1); a commit() or
\* rollBack() that returns lowered the level by one, except that the
\* outermost one with auto-commit disabled ends at level 1 again; the level
\* is never negative and a decrement at level 0 is rejected.
C2_SuccessfulCallsMoveOneLevel ==
  /\ transactionNestingLevel >= 0
  /\ (last.op = "beginTransaction" /\ last.err = NoError)
       => transactionNestingLevel =
            IF Pre.isConnected \/ Pre.autoCommit THEN Up ELSE 2
  /\ (last.op \in {"commit", "rollBack"} /\ last.err = NoError)
       => transactionNestingLevel =
            IF Level = 1 /\ ~Pre.autoCommit THEN 1 ELSE Down
  /\ (last.op \in {"commit", "rollBack"} /\ Level = 0)
       => last.err = NoActiveTransactionException /\ transactionNestingLevel = 0

C2_Witness ==
  /\ last.op = "commit"
  /\ last.err = NoError
  /\ Level = 3
  /\ transactionNestingLevel = 2

\* ------------------------------------------------------------------ C3
\* C3: setRollbackOnly() in an active transaction sets the flag; while the
\* flag is set every commit() fails with the rollback-only error, changes
\* neither level nor flag and makes no call on the driver, and no operation
\* issues a physical commit or a savepoint release; the flag is cleared only
\* by rollBack() at level 1, by close() or by the loss of the connection.
C3_RollbackOnlyIsSticky ==
  /\ (last.op = "setRollbackOnly" /\ Level >= 1)
       => rollbackOnly /\ last.err = NoError /\ transactionNestingLevel = Level
  /\ (last.op = "commit" /\ Pre.rollbackOnly)
       => /\ last.err = RollbackOnlyException
          /\ last.calls = << >>
          /\ transactionNestingLevel = Level
          /\ rollbackOnly
  /\ Pre.rollbackOnly => ~Called("commit") /\ ~Called("releaseSavepoint")
  /\ (last.op = "transactional" /\ last.arg.kind = "setRollbackOnly"
        /\ last.fnErr = NoError)
       => /\ ~Called("commit") /\ ~Called("releaseSavepoint")
          /\ last.err # NoError
          /\ last.rb = NoError => last.err = RollbackOnlyException
  /\ (Pre.rollbackOnly /\ ~rollbackOnly)
       => \/ last.op = "rollBack" /\ Level = 1
          \/ last.op = "close"
          \/ ConnectionLost

C3_Witness ==
  /\ last.op = "commit"
  /\ Pre.rollbackOnly
  /\ Level = 2
  /\ last.err = RollbackOnlyException

\* ------------------------------------------------------------------ C4
\* The call that opened the level of transactional(), and the first call
\* that rolled something back.
IsOpening(i) == last.calls[i].op \in {"beginTransaction", "createSavepoint"}
IsRollingBack(i) == last.calls[i].op \in {"rollBack", "rollbackSavepoint"}

RolledBackWhatWasOpened ==
  \E i, j \in 1..Len(last.calls) :
    /\ i < j
    /\ IsOpening(i) /\ last.calls[i].out = "ok"
    /\ \A k \in (i+1)..j : ~IsOpening(k)
    /\ IsRollingBack(j) /\ last.calls[j].out = "ok"
    /\ \A k \in 1..(j-1) : ~IsRollingBack(k)
    /\ last.calls[i].op = "beginTransaction" => last.calls[j].op = "rollBack"
    /\ last.calls[i].op = "createSavepoint" =>
         /\ last.calls[j].op = "rollbackSavepoint"
         /\ last.calls[j].n = last.calls[i].n

CommittedWhatWasOpened ==
  \E i, j \in 1..Len(last.calls) :
    /\ i < j
    /\ IsOpening(i)
    /\ \A k \in (i+1)..j : ~IsOpening(k)
    /\ last.calls[i].op = "beginTransaction" => last.calls[j].op = "commit"
    /\ last.calls[i].op = "createSavepoint" =>
         /\ last.calls[j].op = "releaseSavepoint"
         /\ last.calls[j].n = last.calls[i].n

FnRaised == last.fnErr \notin {NoError, Skipped}

\* C4: transactional(fn) begins a transaction and runs fn; when fn returns
\* and the commit succeeds it has committed what it opened and returns fn's
\* value; when fn raises, rollBack() is called, and once that rollBack() has
\* completed the level opened by transactional() is the one rolled back and
\* the error raised to the caller is the one fn raised.
C4_TransactionalCommitsOrRethrows ==
  last.op = "transactional" =>
    /\ (last.arg.kind = "return" /\ AllCallsOk /\ driver.name = "spy"
          /\ ~Pre.rollbackOnly)
         => last.err = NoError
    /\ (last.fnErr = NoError /\ last.err = NoError)
         => /\ last.ret = <<last.arg.value>>
            /\ CommittedWhatWasOpened
            /\ AllCallsOk
    /\ FnRaised
         => /\ last.rb # Skipped
            /\ last.ret = NoValue
            /\ last.rb = NoError
                 => last.err = last.fnErr /\ RolledBackWhatWasOpened
    /\ (last.arg.kind = "throw" /\ last.fnErr # Skipped)
         => last.fnErr = FnError

C4_Witness ==
  /\ last.op = "transactional"
  /\ last.arg.kind = "throw"
  /\ Level = 1
  /\ last.rb = NoError
  /\ last.err = FnError
  /\ transactionNestingLevel = 1

\* ------------------------------------------------------------------ C5
\* C5: at nesting level 0, commit(), rollBack(), setRollbackOnly() and
\* isRollbackOnly() fail with the no-active-transaction error, make no call
\* on the driver, and leave the level at 0 and the rollback-only flag unset.
C5_NoActiveTransactionAtLevelZero ==
  (/\ last.op \in {"commit", "rollBack", "setRollbackOnly", "isRollbackOnly"}
   /\ Pre.transactionNestingLevel = 0)
  => /\ last.err = NoActiveTransactionException
     /\ last.calls = << >>
     /\ transactionNestingLevel = 0
     /\ rollbackOnly = FALSE
     /\ isConnected = Pre.isConnected

C5_Witness ==
  /\ last.op = "setRollbackOnly"
  /\ Pre.transactionNestingLevel = 0
  /\ Pre.isConnected
  /\ last.err = NoActiveTransactionException

\* ------------------------------------------------------------------ C8
\* C8: beginTransaction() inside an active transaction, on a driver
\* connection without createSavepoint, fails with the
\* nested-transactions-not-supported error naming the driver, makes no call
\* on the driver, and leaves nesting level and rollback-only flag unchanged.
C8_NestedBeginWithoutSavepoints ==
  (/\ last.op = "beginTransaction"
   /\ Pre.transactionNestingLevel >= 1
   /\ ~driver.create)
  => /\ last.err = NestedTransactionsNotSupportedException(driver.name)
     /\ last.calls = << >>
     /\ transactionNestingLevel = Pre.transactionNestingLevel
     /\ rollbackOnly = Pre.rollbackOnly

C8_Witness ==
  /\ last.op = "beginTransaction"
  /\ Pre.transactionNestingLevel = 1
  /\ Pre.rollbackOnly
  /\ ~driver.create
  /\ last.err = NestedTransactionsNotSupportedException("bare")

\* ------------------------------------------------------------------ C6
Top(seq) == IF seq = << >> THEN << >> ELSE seq[Len(seq)]

OnlyCall(op, n) ==
  /\ Len(last.calls) = 1
  /\ last.calls[1].op = op
  /\ last.calls[1].n = n

\* C6: with auto-commit enabled on a driver connection with savepoints, in a
\* history of beginTransaction(), commit() and rollBack() only, they issue the physical begin only
\* from level 0 and the physical commit and rollback only from level 1; a
\* nested begin at level n creates DATAZEN_<n+1>; a nested commit or rollBack
\* at level n > 1 releases or rolls back to DATAZEN_<n>, which is the latest
\* savepoint created and not yet released or rolled back; and begin, begin,
\* rollBack, commit on a fresh connection yields physical begin, create
\* DATAZEN_2, rollback to DATAZEN_2, physical commit, ending at level 0.
C6_SavepointsFollowNesting ==
  /\ (last.op \in TransactionOps /\ onlyTransactions /\ driver.name = "spy") =>
       /\ \A i \in 1..Len(last.calls) :
            /\ last.calls[i].op = "beginTransaction"
                 => last.op = "beginTransaction" /\ Level = 0
            /\ last.calls[i].op = "commit" => last.op = "commit" /\ Level = 1
            /\ last.calls[i].op = "rollBack" => last.op = "rollBack" /\ Level = 1
       /\ (last.op = "beginTransaction" /\ Level >= 1)
            => OnlyCall("createSavepoint", SavepointName(Up))
       /\ (last.op = "commit" /\ Level > 1 /\ ~Pre.rollbackOnly)
            => /\ OnlyCall("releaseSavepoint", SavepointName(Level))
               /\ Top(Pre.savepoints) = SavepointName(Level)
       /\ (last.op = "rollBack" /\ Level > 1)
            => /\ OnlyCall("rollbackSavepoint", SavepointName(Level))
               /\ Top(Pre.savepoints) = SavepointName(Level)
  /\ scenario = 1 =>
       /\ last.calls = << OkCall("connect", << >>), OkCall("beginTransaction", << >>) >>
       /\ transactionNestingLevel = 1 /\ last.err = NoError
  /\ scenario = 2 =>
       /\ last.calls = << OkCall("createSavepoint", SavepointName(2)) >>
       /\ transactionNestingLevel = 2 /\ last.err = NoError
  /\ scenario = 3 =>
       /\ last.calls = << OkCall("rollbackSavepoint", SavepointName(2)) >>
       /\ transactionNestingLevel = 1 /\ last.err = NoError
  /\ scenario = 4 =>
       /\ last.calls = << OkCall("commit", << >>) >>
       /\ transactionNestingLevel = 0 /\ last.err = NoError

C6_Witness == scenario = 4

Requested == last.arg.value = 1

\* The releases of DATAZEN_n down to DATAZEN_2.
RECURSIVE Releases(_)
Releases(n) ==
  IF n < 2 THEN << >>
  ELSE << OkCall("releaseSavepoint", SavepointName(n)) >> \o Releases(n - 1)

CommitsOfAllLevels ==
  Releases(Level) \o << OkCall("commit", << >>) >>
    \o (IF Requested THEN << >> ELSE << OkCall("beginTransaction", << >>) >>)

SetAutoCommitLeftAlone ==
  /\ last.calls = << >>
  /\ last.err = NoError
  /\ transactionNestingLevel = Level
  /\ rollbackOnly = Pre.rollbackOnly
  /\ isConnected = Pre.isConnected

SetAutoCommitDrivesCalls ==
  /\ Requested # Pre.autoCommit
  /\ Pre.isConnected
  /\ Level >= 1
  /\ driver.release # "absent"
  /\ AllCallsOk

ConnectingOps == {"connect", "beginTransaction", "executeQuery", "transactional"}

\* C11: a Connection that holds no driver connection is at nesting level 0
\* with the rollback-only flag unset; a close() that returns leaves it so
\* whatever the level was; and an operation that finds the Connection
\* without a driver connection and needs one asks the driver to connect
\* before any other driver call.
C11_DisconnectedHoldsNoTransaction ==
  /\ ~isConnected => (transactionNestingLevel = 0 /\ ~rollbackOnly)
  /\ (last.op = "close" /\ last.err = NoError)
       => (~isConnected /\ transactionNestingLevel = 0 /\ ~rollbackOnly)
  /\ (~Pre.isConnected /\ last.op \in ConnectingOps) => last.calls # << >>
  /\ (~Pre.isConnected /\ last.calls # << >>) => last.calls[1].op = "connect"

\* close() returned from level 2 or deeper with the flag set.
C11_Witness ==
  /\ last.op = "close"
  /\ last.err = NoError
  /\ Pre.transactionNestingLevel >= 2
  /\ Pre.rollbackOnly
  /\ ~isConnected

\* ------------------------------------------------------------------ C12
\* The fragments the visitor was handed, one after the other.
RECURSIVE Concatenation(_)
Concatenation(fragments) ==
  IF fragments = << >> THEN << >>
  ELSE Head(fragments).token \o Concatenation(Tail(fragments))

HasFragment(kind) ==
  \E i \in 1..Len(output.fragments) : output.fragments[i].kind = kind

\* C12: for every SQL text, parse() returns, and the fragments it handed to
\* the visitor, concatenated in the order of the calls, are the text itself;
\* no fragment is empty.
C12_FragmentsConcatenateToInput ==
  output.done
    => /\ output.err = NoFailure
       /\ Concatenation(output.fragments) = input.sql
       /\ \A i \in 1..Len(output.fragments) : output.fragments[i].token # << >>

\* A text of the greatest length cut into three or more fragments, markers
\* of both kinds among them.
C12_Witness ==
  /\ output.done
  /\ Len(input.sql) = MaxSqlLen
  /\ Len(output.fragments) >= 3
  /\ HasFragment("named")
  /\ HasFragment("positional")
  /\ HasFragment("other")

\* ----------------------------------------------------- lexical structure
\* Where each character of a SQL text lies, read one character at a time
\* from the left as the lexical rules of SQL describe it: in plain SQL
\* ("sql"), in a single- or double-quoted literal, in a backtick-quoted
\* identifier, in a bracketed identifier, in a line comment or in a block
\* comment.  Delimiters belong to what they delimit.
Reading(mode, label, next) == [mode |-> mode, label |-> label, next |-> next]

ClosesLater(sql, i, delimiter) ==
  \E j \in (i + 1)..Len(sql) : sql[j] = delimiter

\* The character at i read in plain SQL.
ReadSql(sql, i) ==
  CASE sql[i] = "'" -> Reading("single", "single", i + 1)
    [] sql[i] = "\"" -> Reading("double", "double", i + 1)
    [] sql[i] = Backtick -> Reading("backtick", "backtick", i + 1)
    [] sql[i] = "-" /\ At(sql, i + 1) = "-" -> Reading("line", "line", i + 2)
    [] sql[i] = "/" /\ At(sql, i + 1) = "*" -> Reading("block", "block", i + 2)
    [] sql[i] = "[" /\ ~PrecededByArray(sql, i) /\ ClosesLater(sql, i, "]") ->
         Reading("bracket", "bracket", i + 1)
    [] OTHER -> Reading("sql", "sql", i + 1)

\* The character at i read inside a literal: in the escaping dialect a
\* backslash takes the next character with it, in the doubling dialect a
\* doubled delimiter stays inside.
ReadLiteral(sql, i, mode, delimiter, escaping) ==
  IF escaping /\ sql[i] = "\\" THEN Reading(mode, mode, i + 2)
  ELSE IF ~escaping /\ sql[i] = delimiter /\ At(sql, i + 1) = delimiter
  THEN Reading(mode, mode, i + 2)
  ELSE IF sql[i] = delimiter THEN Reading("sql", mode, i + 1)
  ELSE Reading(mode, mode, i + 1)

Read(sql, i, mode, escaping) ==
  CASE mode = "sql" -> ReadSql(sql, i)
    [] mode = "single" -> ReadLiteral(sql, i, mode, "'", escaping)
    [] mode = "double" -> ReadLiteral(sql, i, mode, "\"", escaping)
    [] mode = "backtick" ->
         Reading(IF sql[i] = Backtick THEN "sql" ELSE mode, mode, i + 1)
    [] mode = "bracket" ->
         Reading(IF sql[i] = "]" THEN "sql" ELSE mode, mode, i + 1)
    [] mode = "line" ->
         IF sql[i] \in {"\r", "\n"} THEN Reading("sql", "sql", i + 1)
         ELSE Reading(mode, mode, i + 1)
    [] OTHER ->
         IF sql[i] = "*" /\ At(sql, i + 1) = "/" THEN Reading("sql", mode, i + 2)
         ELSE Reading(mode, mode, i + 1)

Least2(a, b) == IF a < b THEN a ELSE b

\* The label of every character from position i on.
RECURSIVE Regions(_, _, _, _)
RegionsAfter(sql, i, reading, escaping) ==
  [k \in 1..(Least2(reading.next, Len(sql) + 1) - i) |-> reading.label]
    \o Regions(sql, reading.next, reading.mode, escaping)

Regions(sql, i, mode, escaping) ==
  IF i > Len(sql) THEN << >>
  ELSE RegionsAfter(sql, i, Read(sql, i, mode, escaping), escaping)

\* What the reader is in at the end of the text, and where that began (0 for
\* plain SQL).  A backslash at the very end of a literal leaves it open.
RECURSIVE EndOfText(_, _, _, _, _)
EndOfTextAfter(sql, i, mode, open, reading, escaping) ==
  EndOfText(sql, reading.next, reading.mode,
            IF reading.mode = "sql" THEN 0
            ELSE IF mode = "sql" THEN i ELSE open,
            escaping)

EndOfText(sql, i, mode, open, escaping) ==
  IF i > Len(sql) THEN [mode |-> mode, open |-> open]
  ELSE EndOfTextAfter(sql, i, mode, open, Read(sql, i, mode, escaping), escaping)

InputRegions == Regions(input.sql, 1, "sql", input.mySQLStringEscaping)
InputEnd == EndOfText(input.sql, 1, "sql", 0, input.mySQLStringEscaping)

\* The position in the text of the first character of fragment i.
RECURSIVE StartOf(_, _)
StartOf(fragments, i) ==
  IF i = 1 THEN 1 ELSE StartOf(fragments, i - 1) + Len(fragments[i - 1].token)

IsMarker(fragment) == fragment.kind \in {"named", "positional"}

\* ------------------------------------------------------------------ C19
\* C19 as claimed: when the text ends inside a single- or double-quoted
\* literal (one never closed, or one whose last character is a backslash
\* that escapes nothing), parse() fails with the lexical error, and no
\* marker that begins after the opening delimiter of that literal has been
\* handed to the visitor.
C19_UnterminatedLiteralIsLexicalError ==
  (output.done /\ InputEnd.mode \in {"single", "double"})
    => /\ output.err.kind = "RegularExpressionException"
       /\ \A i \in 1..Len(output.fragments) :
            IsMarker(output.fragments[i])
              => StartOf(output.fragments, i) < InputEnd.open

\* ------------------------------------------------------------------ C20
Opaque == {"single", "double", "backtick", "line", "block"}

\* C20: in a text whose literals, quoted identifiers and comments are all
\* closed, no fragment handed to the visitor as a named or positional marker
\* begins inside a quoted literal, a backtick-quoted identifier, a line
\* comment or a block comment, in either dialect.
C20_NoMarkerInsideLiteralOrComment ==
  (output.done /\ InputEnd.mode \in {"sql", "line"})
    => \A i \in 1..Len(output.fragments) :
         IsMarker(output.fragments[i])
           => InputRegions[StartOf(output.fragments, i)] \notin Opaque

\* In the escaping dialect, a closed literal holds an escaped character and
\* after it a question mark; a marker outside the literal is found.
C20_Witness ==
  /\ output.done
  /\ input.mySQLStringEscaping
  /\ InputEnd.mode = "sql"
  /\ HasFragment("positional")
  /\ \E j, k \in 1..Len(input.sql) :
       /\ j < k
       /\ input.sql[j] = "\\"
       /\ input.sql[k] = "?"
       /\ InputRegions[j] = "single"
       /\ InputRegions[k] = "single"

\* ------------------------------------------- reading the last compilation
CompiledBy(op) == output.done /\ output.op = op
Succeeded == output.err = NoFailure

\* The fragments of the SQL handed in, as the compilers' parser cuts it.
InputFragments == input.fragments
IsOther(fragment) == fragment.kind = "other"

\* The text the compiler copies from the SQL handed in.
CopiedText == Concatenation(SelectSeq(InputFragments, IsOther))

CountOf(character, text) ==
  Cardinality({i \in 1..Len(text) : text[i] = character})

\* How many times the compiler wrote a character that it did not copy.
Emitted(character) ==
  CountOf(character, output.query.sql) - CountOf(character, CopiedText)

\* ------------------------------------------------------------------ C13
\* C13: when ParameterCompiler.compile returns, the values it bound are as
\* many as the placeholders it wrote into the SQL (question marks in
\* positional style, @p names in named style), and the types have the shape
\* of the values: two lists of one length, or two maps with one key set.
C13_BoundValuesMatchPlaceholders ==
  (CompiledBy("compile") /\ Succeeded)
    => IF input.bindingStyle = "NAMED"
       THEN /\ ~output.query.parameters.array
            /\ ~output.query.types.array
            /\ DOMAIN output.query.parameters.map = DOMAIN output.query.types.map
            /\ Cardinality(DOMAIN output.query.parameters.map) = Emitted("@")
       ELSE /\ output.query.parameters.array
            /\ output.query.types.array
            /\ Len(output.query.parameters.list) = Len(output.query.types.list)
            /\ Len(output.query.parameters.list) = Emitted("?")

\* A named marker given twice for an array of two values, beside a literal
\* that holds a question mark: four values for four placeholders.
C13_Witness ==
  /\ CompiledBy("compile")
  /\ Succeeded
  /\ input.bindingStyle = "POSITIONAL"
  /\ Len(output.query.parameters.list) = 4
  /\ CountOf("?", CopiedText) = 1
  /\ CountOf("?", output.query.sql) = 5

\* ------------------------------------------------------------------ C14
KindAt(i) == InputFragments[i].kind
MarkerAt(i) == i \in 1..Len(InputFragments) /\ IsMarker(InputFragments[i])
HasBothKinds ==
  /\ \E i \in 1..Len(InputFragments) : KindAt(i) = "named"
  /\ \E i \in 1..Len(InputFragments) : KindAt(i) = "positional"

\* A marker of another kind than a marker before it.
Conflicting(i) ==
  /\ MarkerAt(i)
  /\ \E j \in 1..(i - 1) : MarkerAt(j) /\ KindAt(j) # KindAt(i)

FirstConflict == Least({i \in 1..Len(InputFragments) : Conflicting(i)})

IsMixedStyle(error) ==
  error.kind \in {"MixedParameterStyleError", "MixedParameterStyleException"}

\* C14 as claimed: SQL that holds a named and a positional marker does not
\* compile; the compilation is thrown out of at the first marker whose kind
\* differs from that of a marker before it, with the mixed-style error, or
\* earlier, at a marker that did not resolve; it never goes past that marker.
C14_MixedStylesNeverCompile ==
  (output.done /\ HasBothKinds)
    => /\ ~Succeeded
       /\ output.at \in 1..FirstConflict
       /\ output.at = FirstConflict => IsMixedStyle(output.err)

\* ------------------------------------------------------------------ C15
\* The compilation was not thrown out of before fragment i.
Reached(i) == output.at = 0 \/ output.at >= i

NameAt(i) == Tail(InputFragments[i].token)

\* How many positional markers come before fragment i.
PositionalBefore(i) ==
  Cardinality({j \in 1..(i - 1) : KindAt(j) = "positional"})

MissingName(i) ==
  /\ KindAt(i) = "named"
  /\ ~input.params.array
  /\ NameAt(i) \notin DOMAIN input.params.map
  /\ Prefixed(NameAt(i)) \notin DOMAIN input.params.map

MissingIndex(i) ==
  /\ KindAt(i) = "positional"
  /\ input.params.array
  /\ PositionalBefore(i) >= Len(input.params.list)

\* C15: in ParameterCompiler.compile, a named marker whose name is in the
\* map of values neither bare nor prefixed is where the compilation ends,
\* with the missing-named-parameter error that carries the name; the k-th
\* positional marker (from 0) with no k-th value in the list is where it
\* ends, with the missing-positional-parameter error that carries k.  Both
\* are said of a compilation that gets as far as the marker; no compiled
\* query comes back.
C15_MissingParameterIsReported ==
  CompiledBy("compile")
    => \A i \in 1..Len(InputFragments) :
         /\ (MissingName(i) \/ MissingIndex(i))
              => (~Succeeded /\ output.query = NoQuery)
         /\ (MissingName(i) /\ Reached(i))
              => /\ output.err = MissingNamedParameterError(NameAt(i))
                 /\ output.at = i
         /\ (MissingIndex(i) /\ Reached(i))
              => /\ output.err.kind = "MissingPositionalParameterError"
                 /\ output.err.detail = Decimal(PositionalBefore(i))
                 /\ output.at = i

\* The second positional marker finds a list of one value.
C15_Witness ==
  /\ CompiledBy("compile")
  /\ Len(input.params.list) = 1
  /\ output.err.kind = "MissingPositionalParameterError"
  /\ output.err.detail = <<"1">>
  /\ output.at = 3

\* ------------------------------------------------------------------ C16
\* What marker i resolves to, read off the parameters and types handed in:
\* a name bare and then prefixed, a positional marker by its rank among the
\* positional markers.
Resolvable(i) ==
  IF KindAt(i) = "named"
  THEN /\ ~input.params.array
       /\ \/ NameAt(i) \in DOMAIN input.params.map
          \/ Prefixed(NameAt(i)) \in DOMAIN input.params.map
  ELSE /\ input.params.array
       /\ PositionalBefore(i) < Len(input.params.list)

ResolvedValue(i) ==
  IF KindAt(i) = "positional" THEN input.params.list[PositionalBefore(i) + 1]
  ELSE IF NameAt(i) \in DOMAIN input.params.map THEN input.params.map[NameAt(i)]
  ELSE input.params.map[Prefixed(NameAt(i))]

GivenTag(i) ==
  IF KindAt(i) = "positional"
  THEN IF input.types.array /\ PositionalBefore(i) < Len(input.types.list)
       THEN input.types.list[PositionalBefore(i) + 1] ELSE Undefined
  ELSE IF input.types.array THEN Undefined
  ELSE IF NameAt(i) \in DOMAIN input.types.map THEN input.types.map[NameAt(i)]
  ELSE IF Prefixed(NameAt(i)) \in DOMAIN input.types.map
  THEN input.types.map[Prefixed(NameAt(i))]
  ELSE Undefined

ResolvedTag(i) == IF GivenTag(i) = Undefined THEN "STRING" ELSE GivenTag(i)

ArrayTags == {"ARRAY_INTEGER", "ARRAY_STRING", "ARRAY_ASCII", "ARRAY_BINARY"}
ElementTag(tag) ==
  CASE tag = "ARRAY_INTEGER" -> "INTEGER" [] tag = "ARRAY_STRING" -> "STRING"
    [] tag = "ARRAY_ASCII" -> "ASCII" [] tag = "ARRAY_BINARY" -> "BINARY"

\* The values and types marker i is to bind, in order.
ValuesAt(i) ==
  IF ~MarkerAt(i) THEN << >>
  ELSE IF ResolvedValue(i).array
  THEN [k \in 1..Len(ResolvedValue(i).elems) |->
          [array |-> FALSE, elems |-> <<ResolvedValue(i).elems[k]>>]]
  ELSE <<ResolvedValue(i)>>

TypesAt(i) ==
  IF ~MarkerAt(i) THEN << >>
  ELSE IF ResolvedValue(i).array
  THEN [k \in 1..Len(ResolvedValue(i).elems) |-> ElementTag(ResolvedTag(i))]
  ELSE <<ResolvedTag(i)>>

\* The placeholder for the n-th bound value.
PlaceholderText(n) ==
  IF output.query.parameters.array THEN <<"?">> ELSE <<"@", "p">> \o Decimal(n)

\* The text that is to stand for fragment i when bound values have been
\* bound before it.
TextAt(i, bound) ==
  IF ~MarkerAt(i) THEN InputFragments[i].token
  ELSE IF ResolvedValue(i).array /\ ResolvedValue(i).elems = << >>
  THEN <<"N", "U", "L", "L">>
  ELSE Join([k \in 1..Len(ValuesAt(i)) |-> PlaceholderText(bound + k)],
            <<",", " ">>)

RECURSIVE ExpectedFrom(_, _)
ExpectedFrom(i, bound) ==
  IF i > Len(InputFragments)
  THEN [sql |-> << >>, values |-> << >>, types |-> << >>]
  ELSE [sql |-> TextAt(i, bound)
                  \o ExpectedFrom(i + 1, bound + Len(ValuesAt(i))).sql,
        values |-> ValuesAt(i)
                     \o ExpectedFrom(i + 1, bound + Len(ValuesAt(i))).values,
        types |-> TypesAt(i)
                    \o ExpectedFrom(i + 1, bound + Len(ValuesAt(i))).types]

\* The entries of a list, or those of a map under p1, p2, ...
Bound(collection, n) ==
  IF collection.array THEN collection.list
  ELSE [k \in 1..n |-> collection.map[Placeholder(k)]]

BoundAs(collection, entries) ==
  /\ collection.array => Len(collection.list) = Len(entries)
  /\ ~collection.array
       => DOMAIN collection.map = {Placeholder(k) : k \in 1..Len(entries)}
  /\ Bound(collection, Len(entries)) = entries

OutputIs(expected) ==
  /\ output.query.sql = expected.sql
  /\ BoundAs(output.query.parameters, expected.values)
  /\ BoundAs(output.query.types, expected.types)

\* Every marker resolves, arrays under array type tags, and at least one
\* marker resolves to an array.
ArraysUnderArrayTags ==
  /\ \A i \in 1..Len(InputFragments) :
       MarkerAt(i)
         => /\ Resolvable(i)
            /\ ResolvedValue(i).array => ResolvedTag(i) \in ArrayTags
  /\ \E i \in 1..Len(InputFragments) : MarkerAt(i) /\ ResolvedValue(i).array

\* C16: when the markers resolve and arrays are bound under array type
\* tags, ParameterCompiler.compile (in either style) and the expansion of
\* Connection (for a positional driver) return the SQL with every marker
\* that resolves to an array of N >= 1 elements replaced by N placeholders
\* joined by ", ", every marker that resolves to an empty array replaced by
\* NULL, and the values and types bound are, in the order of the markers,
\* the scalar beside its type and the elements of an array each beside the
\* element type of its tag; an empty array binds nothing.
C16_ArraysExpandInOrder ==
  (/\ output.done
   /\ Succeeded
   /\ output.op = "compile" \/ input.bindingStyle = "POSITIONAL"
   /\ ArraysUnderArrayTags)
    => OutputIs(ExpectedFrom(1, 0))

\* A positional driver is handed an empty array and then an array of two
\* elements, under two array type tags.
C16_Witness ==
  /\ output.done
  /\ Succeeded
  /\ output.op = "executeQuery"
  /\ input.bindingStyle = "POSITIONAL"
  /\ ArraysUnderArrayTags
  /\ \E i, j \in 1..Len(InputFragments) :
       /\ i < j
       /\ MarkerAt(i)
       /\ MarkerAt(j)
       /\ ResolvedValue(i).array
       /\ ResolvedValue(i).elems = << >>
       /\ ResolvedValue(j).array
       /\ Len(ResolvedValue(j).elems) = 2
       /\ ResolvedTag(i) # ResolvedTag(j)

\* ------------------------------------------------------------------ C17
AllResolvable ==
  \A i \in 1..Len(InputFragments) : MarkerAt(i) => Resolvable(i)

\* Marker i resolves to an array whose type tag is a scalar tag or absent.
ArrayUnderScalarTag(i) ==
  /\ MarkerAt(i)
  /\ ResolvedValue(i).array
  /\ ResolvedTag(i) \notin ArrayTags

ArrayBindingTypeErrors == {InvalidParameterError, InvalidParameterException}

\* C17: when every marker resolves and one of them resolves to an array
\* whose type tag is a scalar tag or is absent, the compilation ends with
\* the array-binding-type error and no compiled query, in
\* ParameterCompiler.compile and in Connection.executeQuery alike.
C17_ArrayUnderScalarTagIsRejected ==
  (/\ output.done
   /\ AllResolvable
   /\ \E i \in 1..Len(InputFragments) : ArrayUnderScalarTag(i))
    => /\ output.err \in ArrayBindingTypeErrors
       /\ output.query = NoQuery

\* ------------------------------------------------------------------ C18
\* The compilation was for named binding: compile() asked for it, or the
\* driver of the connection has it.
NamedStyle ==
  /\ output.done
  /\ IF output.op = "compile" THEN input.bindingStyle = "NAMED"
     ELSE driver.bindingStyle = "NAMED"

\* Where the placeholders of the output start.  No SQL handed in holds an
\* at sign, so each one in the output was written by the compilation.
PlaceholderStarts ==
  {at \in 1..Len(output.query.sql) : output.query.sql[at] = "@"}

\* The name written at a placeholder start: the letter p and the digits
\* after it.
RECURSIVE DigitsFrom(_)
DigitsFrom(at) ==
  IF at > Len(output.query.sql) \/ output.query.sql[at] \notin {Digits[k] : k \in DOMAIN Digits}
  THEN << >>
  ELSE <<output.query.sql[at]>> \o DigitsFrom(at + 1)

NameFrom(at) ==
  IF at > Len(output.query.sql) \/ output.query.sql[at] # "p" THEN << >>
  ELSE <<"p">> \o DigitsFrom(at + 1)

Rank(at) == Cardinality({before \in PlaceholderStarts : before <= at})

NumberedInScanOrder ==
  \A at \in PlaceholderStarts : NameFrom(at + 1) = Placeholder(Rank(at))

KeysAreTheNumbers ==
  /\ ~output.query.parameters.array
  /\ ~output.query.types.array
  /\ DOMAIN output.query.parameters.map
       = {Placeholder(k) : k \in 1..Cardinality(PlaceholderStarts)}
  /\ DOMAIN output.query.types.map = DOMAIN output.query.parameters.map

\* Every marker resolves, arrays under array type tags.
WellBound ==
  \A i \in 1..Len(InputFragments) :
    MarkerAt(i)
      => /\ Resolvable(i)
         /\ ResolvedValue(i).array => ResolvedTag(i) \in ArrayTags

\* C18: a successful compilation in named style writes its placeholders as
\* @p1, @p2, ... in the order of the text, from 1 in every compilation; the
\* maps of values and of types have the keys p1..pk and no other; and
\* p<i> holds the value and the type of the i-th placeholder the markers
\* call for in the order of the scan, so that a named marker given m times
\* has m placeholders with one value.
C18_NamedPlaceholdersAreNumbered ==
  (NamedStyle /\ Succeeded)
    => /\ NumberedInScanOrder
       /\ KeysAreTheNumbers
       /\ WellBound => OutputIs(ExpectedFrom(1, 0))

\* ------------------------------------------------------------------ C21
\* The question marks of the SQL handed in that stand in plain SQL.
QuestionMarks ==
  {k \in 1..Len(input.sql) : input.sql[k] = "?" /\ InputRegions[k] = "sql"}

\* A question mark with no other one right before or right after it.
Alone(k) == At(input.sql, k - 1) # "?" /\ At(input.sql, k + 1) # "?"

FragmentStarting(k, kind) ==
  \E i \in 1..Len(InputFragments) :
    /\ InputFragments[i].kind = kind
    /\ StartOf(InputFragments, i) = k

FragmentOver(k, kind) ==
  \E i \in 1..Len(InputFragments) :
    /\ InputFragments[i].kind = kind
    /\ StartOf(InputFragments, i) <= k
    /\ k < StartOf(InputFragments, i) + Len(InputFragments[i].token)

AloneCount == Cardinality({k \in QuestionMarks : Alone(k)})

\* The values handed in are a list of scalars.
ScalarsOnly ==
  /\ input.params.array
  /\ \A k \in DOMAIN input.params.list : ~input.params.list[k].array

\* C21: in a SQL text whose literals, quoted identifiers and comments are
\* closed, a question mark in plain SQL is handed to the visitor as a
\* positional marker exactly when no question mark stands right before or
\* right after it, and otherwise lies in a fragment of other text; and
\* ParameterCompiler.compile, given a list of scalar values, binds to the
\* markers the first values of the list, as many as there are question marks
\* standing alone, and copies the others into the SQL: a run of question
\* marks takes no value and moves no index.
C21_LoneQuestionMarkIsPositional ==
  (output.done /\ InputEnd.mode \in {"sql", "line"})
    => /\ \A k \in QuestionMarks :
            /\ FragmentStarting(k, "positional") <=> Alone(k)
            /\ ~Alone(k) => FragmentOver(k, "other")
       /\ (CompiledBy("compile") /\ Succeeded /\ ScalarsOnly)
            => /\ BoundAs(output.query.parameters,
                          SubSeq(input.params.list, 1, AloneCount))
               /\ input.bindingStyle = "NAMED"
                    => CountOf("?", output.query.sql)
                         = CountOf("?", input.sql) - AloneCount
       /\ (CompiledBy("compile") /\ ScalarsOnly
             /\ (\A i \in 1..Len(InputFragments) : KindAt(i) # "named")
             /\ AloneCount <= Len(input.params.list))
            => Succeeded

\* Two question marks in a run, then one alone after a comma: compile()
\* binds the first value of the list to the one that stands alone.
C21_Witness ==
  /\ CompiledBy("compile")
  /\ Succeeded
  /\ ScalarsOnly
  /\ input.bindingStyle = "NAMED"
  /\ InputEnd.mode = "sql"
  /\ AloneCount = 1
  /\ Cardinality(QuestionMarks) = 3
  /\ Len(input.params.list) = 2
  /\ output.query.parameters.map[Placeholder(1)] = input.params.list[1]

\* ------------------------------------------------------------------ C22
\* The positions of a text at which the reader is in plain SQL.
RECURSIVE PlainFrom(_, _, _, _)
PlainAfter(sql, i, mode, reading, escaping) ==
  (IF mode = "sql" THEN {i} ELSE {})
    \cup PlainFrom(sql, reading.next, reading.mode, escaping)

PlainFrom(sql, i, mode, escaping) ==
  IF i > Len(sql) THEN {}
  ELSE PlainAfter(sql, i, mode, Read(sql, i, mode, escaping), escaping)

\* Opening brackets met in plain SQL that have a closing bracket after them.
OpenedBrackets ==
  {k \in PlainFrom(input.sql, 1, "sql", input.mySQLStringEscaping) :
     input.sql[k] = "[" /\ ClosesLater(input.sql, k, "]")}

ClosingOf(k) ==
  CHOOSE j \in (k + 1)..Len(input.sql) :
    /\ input.sql[j] = "]"
    /\ \A m \in (k + 1)..(j - 1) : input.sql[m] # "]"

\* The word ARRAY, in any letter case, ends right before position k and
\* does not continue a longer word.
ArrayKeywordBefore(k) ==
  /\ k > 5
  /\ input.sql[k - 5] \in {"A", "a"}
  /\ input.sql[k - 4] \in {"R", "r"}
  /\ input.sql[k - 3] \in {"R", "r"}
  /\ input.sql[k - 2] \in {"A", "a"}
  /\ input.sql[k - 1] \in {"Y", "y"}
  /\ At(input.sql, k - 6) \notin WordChars

HandedAt(k, kind, length) ==
  \E i \in 1..Len(output.fragments) :
    /\ output.fragments[i].kind = kind
    /\ StartOf(output.fragments, i) = k
    /\ Len(output.fragments[i].token) = length

\* C22: a bracket opened in plain SQL and closed later is handed to the
\* visitor whole, from [ to the first ], as one fragment of other text, so
\* that no marker is found in it, unless the word ARRAY in any letter case
\* stands right before the [; then the [ is handed over alone and what
\* follows is read by the ordinary rules: a question mark that stands alone
\* in it is a positional marker.
C22_BracketsAreOpaqueUnlessArray ==
  (output.done /\ InputEnd.mode \in {"sql", "line"})
    => \A k \in OpenedBrackets :
         IF ArrayKeywordBefore(k)
         THEN /\ HandedAt(k, "other", 1)
              /\ \A q \in (k + 1)..(ClosingOf(k) - 1) :
                   (input.sql[q] = "?" /\ InputRegions[q] = "sql" /\ Alone(q))
                     => HandedAt(q, "positional", 1)
         ELSE /\ HandedAt(k, "other", ClosingOf(k) + 1 - k)
              /\ \A q \in (k + 1)..ClosingOf(k) :
                   \A i \in 1..Len(output.fragments) :
                     StartOf(output.fragments, i) # q

\* array[?] in lower case, with the marker in it found.
C22_Witness ==
  /\ output.done
  /\ InputEnd.mode = "sql"
  /\ \E k \in OpenedBrackets :
       /\ ArrayKeywordBefore(k)
       /\ input.sql[k - 1] = "y"
       /\ HandedAt(k + 1, "positional", 1)
       /\ ClosingOf(k) = k + 2

\* ------------------------------------------------------------------ C23
\* The colons of the text that stand in plain SQL with no colon before them,
\* and how many colons and then how many word characters follow.
RunStarts ==
  {k \in 1..Len(input.sql) :
     /\ input.sql[k] = ":"
     /\ InputRegions[k] = "sql"
     /\ At(input.sql, k - 1) # ":"}

RECURSIVE Colons(_)
Colons(k) == IF At(input.sql, k) = ":" THEN 1 + Colons(k + 1) ELSE 0

RECURSIVE Word(_)
Word(k) == IF At(input.sql, k) \in WordChars THEN 1 + Word(k + 1) ELSE 0

NothingStartsIn(from, to) ==
  \A q \in from..to :
    \A i \in 1..Len(output.fragments) : StartOf(output.fragments, i) # q

\* C23: in plain SQL, two or more colons in a row are handed to the visitor
\* together as one fragment of other text, no colon of the run starts a
\* named marker, and word characters after the run are other text; a colon
\* with no colon beside it and word characters after it is a named marker
\* made of the colon and all those characters, also when colons follow.
C23_ColonRunsAreOpaque ==
  (output.done /\ InputEnd.mode \in {"sql", "line"})
    => \A k \in RunStarts :
         /\ Colons(k) >= 2
              => /\ HandedAt(k, "other", Colons(k))
                 /\ NothingStartsIn(k + 1, k + Colons(k) - 1)
                 /\ Word(k + Colons(k)) > 0
                      => \E length \in Word(k + Colons(k))..Len(input.sql) :
                           HandedAt(k + Colons(k), "other", length)
         /\ (Colons(k) = 1 /\ Word(k + 1) > 0)
              => /\ HandedAt(k, "named", 1 + Word(k + 1))
                 /\ Colons(k + 1 + Word(k + 1)) >= 2
                      => HandedAt(k + 1 + Word(k + 1), "other",
                                  Colons(k + 1 + Word(k + 1)))

\* :a::a, the shape of a cast: a marker, the two colons, a word.
C23_Witness ==
  /\ output.done
  /\ InputEnd.mode = "sql"
  /\ \E k \in RunStarts :
       /\ Colons(k) = 1
       /\ Word(k + 1) = 1
       /\ Colons(k + 2) = 2
       /\ Word(k + 4) = 1
       /\ HandedAt(k, "named", 2)
       /\ HandedAt(k + 2, "other", 2)
       /\ HandedAt(k + 4, "other", 1)

\* ------------------------------------------------------------------ C26
\* The error of ParameterCompiler that answers to an error of the
\* Connection path.
KindInCompiler(kind) ==
  CASE kind = "MixedParameterStyleException" -> "MixedParameterStyleError"
    [] kind = "InvalidParameterException" -> "InvalidParameterError"
    [] kind = "MissingNamedParameterException" -> "MissingNamedParameterError"
    [] kind = "MissingPositionalParameterException" ->
         "MissingPositionalParameterError"
    [] OTHER -> kind

SameOutcome(result) ==
  /\ KindInCompiler(output.err.kind) = result.err.kind
  /\ output.query = result.query

\* C26 as claimed: whatever SQL, parameters and types are handed in, and
\* for a driver of either binding style, what Connection.executeQuery
\* compiles is what ParameterCompiler.compile returns for them in that
\* style: the same SQL, values and types, or an error of the same kind.
C26_ConnectionCompilesAsParameterCompiler ==
  CompiledBy("executeQuery")
    => SameOutcome(compile(input.sql, input.params, input.types,
                           driver.bindingStyle))

\* ------------------------------------------------------------------ C29
\* C29 as claimed: between operations, a Connection with auto-commit
\* disabled that holds a driver connection has a transaction open.
C29_TransactionOpenWithoutAutoCommit ==
  (~autoCommit /\ isConnected) => transactionNestingLevel >= 1

\* ------------------------------------------------------------------ C25
\* A call that rolls back a level that was open before the operation: the
\* physical rollback when a transaction was open, or the rollback to the
\* savepoint of a level not above the one at entry.
RollsBackOpenLevel(call) ==
  \/ call.op = "rollBack" /\ Level >= 1
  \/ /\ call.op = "rollbackSavepoint"
     /\ \E level \in 2..Level : call.n = SavepointName(level)

\* C25 as claimed: on a connected Connection, when no driver call is
\* rejected for a lost connection, transactional(fn) with an fn that leaves
\* the nesting level alone ends with the level not below the one it found
\* and has sent the driver no rollback of a level that was open before it,
\* also when its commit fails.
C25_TransactionalSparesOuterLevels ==
  (/\ last.op = "transactional"
   /\ Pre.isConnected
   /\ ~ConnectionLost)
    => /\ transactionNestingLevel >= Level
       /\ \A i \in 1..Len(last.calls) : ~RollsBackOpenLevel(last.calls[i])

\* ------------------------------------------------------------------ C24
Started(k) == tasks[k].status \in {"running", "fulfilled", "rejected"}

\* C24: of the executeQuery and executeStatement requests handed to one
\* MSSQLConnection, one whose native query is under way has every earlier
\* request settled, so no two run at once; requests start in the order they
\* were handed in; and a request not yet started whose predecessors have all
\* settled, fulfilled or rejected, is free to start.
C24_RequestsRunOneByOne ==
  \A k \in 1..Len(tasks) :
    /\ Started(k) => \A j \in 1..(k - 1) : Settled(tasks, j)
    /\ Started(k) => tasks[k].order = k
    /\ (tasks[k].status = "queued" /\ \A j \in 1..(k - 1) : Settled(tasks, j))
         => Settled(tasks, tasks[k].after)

\* A request was rejected, the next one has run to its end all the same,
\* and a fourth waits behind the third, which is running.
C24_Witness ==
  /\ Len(tasks) = 4
  /\ tasks[1].status = "rejected"
  /\ tasks[2].status = "fulfilled"
  /\ tasks[3].status = "running"
  /\ tasks[4].status = "queued"
  /\ tasks[3].work # tasks[4].work

\* ------------------------------------------------------------------ C28
Refused(op) ==
  \E i \in 1..Len(last.calls) :
    last.calls[i].op = op /\ last.calls[i].out = "refused"

\* C28 as claimed: while a Connection holds an MSSQLConnection, after any
\* sequence of beginTransaction(), commit() and rollBack() whose native
\* calls may fail, the Connection has a transaction active exactly when the
\* adapter holds a native transaction; and a beginTransaction() called at
\* nesting level 0 is not refused by the adapter for a transaction that is
\* already active.
C28_AdapterAgreesWithConnection ==
  /\ isConnected => ((transactionNestingLevel > 0) <=> adapter.transaction)
  /\ (last.op = "beginTransaction" /\ Level = 0)
       => ~Refused("beginTransaction")

\* ------------------------------------------------------------------ C30
\* The pooled connections handed out and not given back.
Held ==
  {id \in 1..adapter.obtained : adapter.released[id] = 0}

Pinned ==
  IF adapter.transactionConnection = 0 THEN {}
  ELSE {adapter.transactionConnection}

\* C30 as claimed: of the connections a MySQL2Connection has taken from its
\* pool, the only one not given back is the one it has pinned, which it
\* holds exactly while a transaction begun through it is open; none is
\* released twice; and after close() every connection taken has been
\* released, also when a native beginTransaction, commit or rollback was
\* rejected.
C30_PooledConnectionsArePinnedOrReleased ==
  /\ Cardinality(Pinned) <= 1
  /\ (Pinned # {}) <=> adapter.open
  /\ \A id \in 1..adapter.obtained : adapter.released[id] <= 1
  /\ Held = Pinned
  /\ adapter.lastCall.op = "close" => Held = {}

\* ------------------------------------------------------------------ C27
HasConnection(k) == tasks[k].pc \in {"connected", "done"}

Connecting == {k \in 1..Len(tasks) : tasks[k].pc = "connecting"}

AllDone == tasks # NoTasks /\ \A k \in 1..Len(tasks) : tasks[k].pc = "done"

SameConnection ==
  \A j, k \in 1..Len(tasks) :
    (HasConnection(j) /\ HasConnection(k)) => tasks[j].conn = tasks[k].conn

\* C27, amended: every operation started while the Connection holds no
\* driver connection calls driver.connect() itself and awaits a driver
\* connection of its own, so driver.connect() is called once per such
\* operation and no more than once per operation; with auto-commit
\* disabled each of them asks for one begin or one savepoint, and none is
\* asked for with auto-commit enabled.  When only one operation called
\* driver.connect(), all operations get the same driver connection and
\* with auto-commit disabled one transaction is begun, level 1 at the end.
C27_EveryUnconnectedStartConnects ==
  /\ adapter.connects <= Len(tasks)
  /\ tasks # NoTasks => adapter.connects >= 1
  /\ \A j, k \in Connecting : j # k => tasks[j].conn # tasks[k].conn
  /\ \A k \in Connecting : tasks[k].conn \in 1..adapter.connects
  /\ adapter.driverConnection \in 0..adapter.connects
  /\ isConnected = (adapter.driverConnection # 0)
  /\ adapter.begins + adapter.savepointsMade <= adapter.connects
  /\ transactionNestingLevel <= adapter.begins + adapter.savepointsMade
  /\ autoCommit => adapter.begins = 0 /\ adapter.savepointsMade = 0
  /\ adapter.connects <= 1
       => /\ SameConnection
          /\ adapter.begins <= 1 /\ adapter.savepointsMade = 0
          /\ (AllDone /\ ~autoCommit)
               => adapter.begins = 1 /\ transactionNestingLevel = 1

\* Two operations started together have ended: driver.connect() was called
\* twice, and a transaction was begun on each of the driver connections.
C27_Witness ==
  /\ ~autoCommit
  /\ AllDone
  /\ Len(tasks) = 2
  /\ adapter.connects = 2
  /\ adapter.begins = 2
  /\ transactionNestingLevel = 1

\* C27 as claimed: when operations are started on a Connection that is not
\* connected without waiting for one another, driver.connect() is called at
\* most once, the operations all get the same driver connection, and with
\* auto-commit disabled the transaction that connect() begins is begun no
\* more than once, and exactly once when all of them have ended.
C27_ConcurrentOperationsConnectOnce ==
  /\ adapter.connects <= 1
  /\ SameConnection
  /\ ~autoCommit
       => /\ adapter.begins <= 1
          /\ adapter.savepointsMade = 0
          /\ AllDone => adapter.begins = 1 /\ transactionNestingLevel = 1

====
